---- MODULE Spec2Model ----
(***************************************************************************)
(* Model of the rate-control core of qBit Smart Limit (src/qsl/core.py,    *)
(* src/qsl/utils.py, src/main.py).                                         *)
(*                                                                         *)
(* Number representation.  The program computes with Python floats; the    *)
(* model computes with fixed-point integers:                               *)
(*   - dimensionless factors (PID error/output, gains, precision factors)  *)
(*     are stored multiplied by a scale stated with each component;        *)
(*   - PID and Kalman timestamps are in centiseconds, so that the          *)
(*     0.01 s minimum-dt guard is the integer 1;                           *)
(*   - divisions round toward minus infinity (\div).                       *)
(* NaN and infinite inputs are outside the model.                          *)
(***************************************************************************)
EXTENDS Integers, Sequences, FiniteSets, TLC

VARIABLES
    \* ---- PIDController (core.py 21-56) and the harness driving it
    pid,        \* the controller object's fields
    pid_ret,    \* value returned by the most recent update call (NoRet: none yet)
    pid_in,     \* arguments of the most recent call
    pid_op,     \* most recent call: "new", "set_phase", "update", "reset"
    pid_updates,\* update calls made since construction or the last reset
    pid_n,      \* number of calls made so far
    \* ---- ExtendedKalman (core.py 62-100) and the harness driving it
    kal,        \* the filter object's fields
    kal_ret,    \* <<speed, accel>> returned by the most recent update call
    kal_in,     \* arguments of the most recent update call
    kal_op,     \* most recent call: "new", "update", "reset"
    kal_updates,\* update calls made since construction or the last reset
    kal_dirty,  \* the last reset was applied to a filter with a non-zero acceleration estimate
    kal_n,      \* number of calls made so far
    \* ---- AdaptiveQuantizer.quantize (core.py 143-158) applied twice
    q_in,       \* the arguments (limit, phase, current_speed, target, trend)
    q_out,      \* quantize(limit, ...)
    q_out2,     \* quantize(quantize(limit, ...), ...)
    q_stage,    \* "idle", "input", "once", "twice"
    \* ---- PrecisionTracker (core.py 164-199), the process-wide instance
    pt_history, \* deque(maxlen=30) of <<ratio, phase>> (the timestamp is never read)
    pt_phase_adj,   \* _phase_adj
    pt_global_adj,  \* _global_adj
    pt_switched,    \* harness: the recorded input has changed once already
    pt_n,           \* harness: number of record calls so far
    \* ---- DownloadLimiter.calc_dl_limit (core.py 306-346) applied to drawn inputs
    dl_in,      \* the entity state and the arguments
    dl_out,     \* <<limit, reason>> returned
    dl_stage,   \* "idle", "input", "done"
    \* ---- ReannounceOptimizer (core.py 352-402) applied to drawn inputs
    ra_in,      \* the entity state and the arguments
    ra_out,     \* what the two functions returned and the state they left
    ra_stage,   \* "idle", "input", "done"
    \* ---- TorrentState.new_cycle / to_db_dict / load_from_db on one object
    cyc,        \* the object's fields
    cyc_prev,   \* the object's fields before the most recent call
    cyc_in,     \* the time of the most recent call and the arguments of the
                \* most recent new_cycle call
    cyc_op,     \* most recent call: "new", "new_cycle", "reload", "tick", "mark"
    cyc_n,      \* number of calls made so far
    cyc_lc,     \* the object's limit_controller (PrecisionLimitController)
    cyc_lc_prev,\* the limit_controller before the most recent call
    \* ---- Controller (main.py): the run loop over one torrent
    clock,      \* wall-clock time of the most recent loop iteration
    states,     \* Controller.states[h]: the entity object, or NoState
    ctl,        \* Controller fields: last_config_check, _last_db_save
    stats,      \* Controller.stats
    db,         \* database: torrent_states row (or NoRow) and stats row
    env,        \* the torrent in the client and its tracker schedule
    obs,        \* what the most recent loop iteration did
    ticks,      \* loop iterations so far
    restarts,   \* process restarts so far
    \* ---- a function of the program applied once to drawn arguments
    fn_in,      \* the arguments
    fn_out,     \* the value returned
    fn_stage,   \* "idle", "input", "done"
    \* ---- the position of Controller.run within an iteration over several
    \* torrents
    run,
    \* ---- threads contending for a lock: the callers of the shared
    \* PrecisionTracker (core.py 203), or of the SubscriptionModule
    thr_pc,     \* each thread's position in record / get_adjustment
    thr_local,  \* each thread's arguments, locals and returned value
    thr_lock,   \* the holder of PrecisionTracker._lock, or NoThread
    thr_ghost,  \* the records appended so far, and the tracker they give
                \* when each record call is one step
    \* ---- CleanupModule._auto_cleanup (cleanup.py 430-550)
    cln         \* the position of one round, its locals and what it deleted

pidVars == <<pid, pid_ret, pid_in, pid_op, pid_updates, pid_n>>

kalVars == <<kal, kal_ret, kal_in, kal_op, kal_updates, kal_dirty, kal_n>>

quantVars == <<q_in, q_out, q_out2, q_stage>>

ptVars == <<pt_history, pt_phase_adj, pt_global_adj, pt_switched, pt_n>>

dlVars == <<dl_in, dl_out, dl_stage>>

raVars == <<ra_in, ra_out, ra_stage>>

cycVars == <<cyc, cyc_prev, cyc_in, cyc_op, cyc_n, cyc_lc, cyc_lc_prev>>

ctlVars == <<clock, states, ctl, stats, db, env, obs, ticks, restarts>>

fnVars == <<fn_in, fn_out, fn_stage>>

loopVars == <<run>>

thrVars == <<thr_pc, thr_local, thr_lock, thr_ghost>>

clnVars == <<cln>>

entityVars == <<dlVars, raVars, cycVars, ctlVars, fnVars, loopVars, thrVars, clnVars>>

vars == <<pidVars, kalVars, quantVars, ptVars, entityVars>>

(***************************************************************************)
(* utils.py                                                                *)
(***************************************************************************)
Max(a, b) == IF a >= b THEN a ELSE b
Min(a, b) == IF a <= b THEN a ELSE b
Abs(a) == IF a < 0 THEN -a ELSE a

\* a mutant of notifier_paused: /pause is not honoured
notifier_paused_Never(cfg) == FALSE

\* self.notifier.paused as the controller reads it (main.py 352, 402, 427)
notifier_paused(cfg) == cfg.paused

\* F applied to the value of v: the local names of a method are bound in
\* program order, each to the value computed once
Bind(v, F(_)) == CHOOSE r \in {F(x) : x \in {v}} : TRUE

\* a mutant of clamp: the upper bound is not applied
clamp_NoUpper(value, min_val, max_val) == Max(min_val, value)

\* a mutant of clamp: the lower bound is not applied
clamp_NoLower(value, min_val, max_val) == Min(max_val, value)

\* utils.clamp: max(min_val, min(max_val, value))
clamp(value, min_val, max_val) == Max(min_val, Min(max_val, value))

Phases == {"warmup", "catch", "steady", "finish"}

(***************************************************************************)
(* PIDController.  Scale: error, integral, output are in thousandths       *)
(* (1.0 = 1000); gains are in hundredths; time is in centiseconds.         *)
(***************************************************************************)
PidScale == 1000
GainScale == 100
CsPerSec == 100
\* core.py 38: dt <= 0.01 (seconds) is one centisecond
PidMinDt == 1
\* core.py 26: _integral_limit = 0.3
PidIntegralLimit == 300
\* core.py 50: clamp(..., 0.5, 2.0)
PidOutMin == 500
PidOutMax == 2000
NoRet == -1

\* C.PID_PARAMS (utils.py 40-45), kp/ki/kd in hundredths
PID_PARAMS ==
    [warmup |-> [kp |-> 30, ki |-> 5,  kd |-> 2],
     catch  |-> [kp |-> 50, ki |-> 10, kd |-> 5],
     steady |-> [kp |-> 60, ki |-> 15, kd |-> 8],
     finish |-> [kp |-> 80, ki |-> 20, kd |-> 12]]

\* PIDController.__init__
PIDNew ==
    [kp |-> 60, ki |-> 15, kd |-> 8,
     integral |-> 0, last_error |-> 0, last_time |-> 0,
     last_output |-> PidScale, initialized |-> FALSE,
     derivative_filter |-> 0]

\* PIDController.set_phase
PIDSetPhase(p, phase) ==
    [p EXCEPT !.kp = PID_PARAMS[phase].kp,
              !.ki = PID_PARAMS[phase].ki,
              !.kd = PID_PARAMS[phase].kd]

\* a mutant of PIDError: the sign of the error is inverted
PIDError_Inverted(setpoint, measured) ==
    ((measured - setpoint) * PidScale) \div Max(setpoint, 1)

\* core.py 33: error = safe_div(setpoint - measured, max(setpoint, 1), 0)
\* (the divisor is at least 1, so safe_div never takes its default branch)
PIDError(setpoint, measured) ==
    ((setpoint - measured) * PidScale) \div Max(setpoint, 1)

\* a mutant of PIDGuarded: the guarded call moves the time reference
PIDGuarded_MovesTime(p, error, now) ==
    [pid |-> [p EXCEPT !.last_time = now], out |-> p.last_output]

\* core.py 38: if dt <= 0.01: return self._last_output
PIDGuarded(p, error, now) ==
    [pid |-> p, out |-> p.last_output]

\* a mutant of PIDFirst: the first call also integrates the error
PIDFirst_Integrates(p, error, now) ==
    [pid |-> [p EXCEPT !.last_error = error, !.last_time = now,
                       !.initialized = TRUE, !.integral = error],
     out |-> PidScale + (p.kp * error) \div GainScale]

\* core.py 34-36: the first call after construction or reset
PIDFirst(p, error, now) ==
    [pid |-> [p EXCEPT !.last_error = error, !.last_time = now,
                       !.initialized = TRUE],
     out |-> PidScale]

\* core.py 39-52: an accepted call
PIDAccepted(p, error, now) ==
    LET dt == now - p.last_time
        p_term == (p.kp * error) \div GainScale
        integral == clamp(p.integral + (error * dt) \div CsPerSec,
                          -PidIntegralLimit, PidIntegralLimit)
        i_term == (p.ki * integral) \div GainScale
        raw_derivative == ((error - p.last_error) * CsPerSec) \div dt
        derivative_filter == (3 * raw_derivative + 7 * p.derivative_filter) \div 10
        d_term == (p.kd * derivative_filter) \div GainScale
        output == clamp(PidScale + p_term + i_term + d_term, PidOutMin, PidOutMax)
    IN  [pid |-> [p EXCEPT !.last_time = now, !.integral = integral,
                           !.derivative_filter = derivative_filter,
                           !.last_error = error, !.last_output = output],
         out |-> output]

\* PIDController.update: returns the new object state and the returned value
PIDUpdate(p, setpoint, measured, now) ==
    LET error == PIDError(setpoint, measured)
    IN  IF ~p.initialized THEN PIDFirst(p, error, now)
        ELSE IF now - p.last_time <= PidMinDt THEN PIDGuarded(p, error, now)
        ELSE PIDAccepted(p, error, now)

\* PIDController.reset
PIDReset(p) ==
    [p EXCEPT !.integral = 0, !.last_error = 0, !.last_time = 0,
              !.last_output = PidScale, !.derivative_filter = 0,
              !.initialized = FALSE]

\* ---- harness: any sequence of set_phase / update / reset calls
MaxPidCalls == 4
PidSetpoints == {0, 1200}
PidMeasureds == {0, 1000, 1500}
PidTimes == {100, 101, 102, 200}
NoIn == [setpoint |-> 0, measured |-> 0, now |-> 0]

PidInit ==
    /\ pid = PIDNew
    /\ pid_ret = NoRet
    /\ pid_in = NoIn
    /\ pid_op = "new"
    /\ pid_updates = 0
    /\ pid_n = 0

PidCallSetPhase ==
    /\ pid_n < MaxPidCalls
    /\ \E phase \in Phases :
         /\ pid' = PIDSetPhase(pid, phase)
         /\ pid_op' = "set_phase"
    /\ pid_n' = pid_n + 1
    /\ UNCHANGED <<pid_ret, pid_in, pid_updates>>

PidCallUpdate ==
    /\ pid_n < MaxPidCalls
    /\ \E setpoint \in PidSetpoints, measured \in PidMeasureds, now \in PidTimes :
         LET r == PIDUpdate(pid, setpoint, measured, now)
         IN  /\ pid' = r.pid
             /\ pid_ret' = r.out
             /\ pid_in' = [setpoint |-> setpoint, measured |-> measured, now |-> now]
    /\ pid_op' = "update"
    /\ pid_updates' = pid_updates + 1
    /\ pid_n' = pid_n + 1

PidCallReset ==
    /\ pid_n < MaxPidCalls
    /\ pid' = PIDReset(pid)
    /\ pid_op' = "reset"
    /\ pid_updates' = 0
    /\ pid_n' = pid_n + 1
    /\ UNCHANGED <<pid_ret, pid_in>>

PidNext ==
    \/ PidCallSetPhase /\ UNCHANGED <<kalVars, quantVars, ptVars, entityVars>>
    \/ PidCallUpdate /\ UNCHANGED <<kalVars, quantVars, ptVars, entityVars>>
    \/ PidCallReset /\ UNCHANGED <<kalVars, quantVars, ptVars, entityVars>>

(***************************************************************************)
(* Claims about PIDController, checked under SpecPID.                      *)
(***************************************************************************)

\* C1: every value returned by PIDController.update, after any sequence of
\* set_phase, update and reset calls, lies in the closed interval [0.5, 2.0].
C1_PidOutputInRange ==
    pid_ret # NoRet => (PidOutMin <= pid_ret /\ pid_ret <= PidOutMax)

\* C1 witness: an accepted update whose raw sum fell under 0.5 returned the
\* lower bound itself.
C1_Witness ==
    /\ pid_op = "update"
    /\ pid_updates >= 2
    /\ pid_ret = PidOutMin
    /\ pid.last_time = pid_in.now
    /\ PIDError(pid_in.setpoint, pid_in.measured) < -PidScale

\* C9: the first update after construction or reset returns exactly 1.0 and
\* changes nothing but the recorded error, the time reference and the
\* initialized flag; the second update, more than the minimum dt later with
\* the same setpoint and measured value and setpoint > measured, returns a
\* value strictly greater than 1.0.
C9_FirstReturnsOneSecondCorrectsUp ==
    [][ pid_op' = "update" =>
          /\ (pid_updates = 0 =>
                /\ pid_ret' = PidScale
                /\ pid'.initialized
                /\ pid'.last_time = pid_in'.now
                /\ pid'.last_error = PIDError(pid_in'.setpoint, pid_in'.measured)
                /\ pid'.integral = pid.integral
                /\ pid'.derivative_filter = pid.derivative_filter
                /\ pid'.last_output = pid.last_output
                /\ <<pid'.kp, pid'.ki, pid'.kd>> = <<pid.kp, pid.ki, pid.kd>>)
          /\ (/\ pid_updates = 1
              /\ pid_in'.setpoint = pid_in.setpoint
              /\ pid_in'.measured = pid_in.measured
              /\ pid_in'.setpoint > pid_in'.measured
              /\ pid_in'.now - pid.last_time > PidMinDt
              => pid_ret' > PidScale) ]_vars

\* C9 witness: the scenario of the specification: phase catch, setpoint 1200,
\* measured 1000, second call one second after the first (the integral holds
\* error * 1 s), and the value returned is above 1.0.
C9_Witness ==
    /\ pid_op = "update"
    /\ pid_updates = 2
    /\ pid.kp = PID_PARAMS["catch"].kp
    /\ pid_in = [setpoint |-> 1200, measured |-> 1000, now |-> 200]
    /\ pid.integral = PIDError(1200, 1000)
    /\ pid.derivative_filter = 0
    /\ pid_ret > PidScale

\* C10: an update whose timestamp is within the minimum dt of the previous
\* accepted call returns the previous output and leaves the integral, the
\* filtered derivative, the last error and the time reference (every field)
\* unchanged, whatever setpoint and measured value are passed.
C10_GuardedUpdateChangesNothing ==
    [][ (/\ pid_op' = "update"
         /\ pid.initialized
         /\ pid_in'.now - pid.last_time <= PidMinDt)
        => (/\ pid_ret' = pid_ret
            /\ pid_ret' = pid.last_output
            /\ pid' = pid) ]_vars

\* C10 witness: a guarded update has just returned: its arguments carry an
\* error and a timestamp that differ from the ones the controller holds.
C10_Witness ==
    /\ pid_op = "update"
    /\ pid_updates >= 3
    /\ pid.initialized
    /\ pid_in.now # pid.last_time
    /\ pid_in.now - pid.last_time <= PidMinDt
    /\ PIDError(pid_in.setpoint, pid_in.measured) # pid.last_error
    /\ pid_ret = pid.last_output
    /\ pid_ret # PidScale

(***************************************************************************)
(* ExtendedKalman.  Scale: speed, acceleration and the covariance entries  *)
(* are in hundredths (KalScale); the gains k0, k1 are in thousandths       *)
(* (KalGain); time is in centiseconds.  Measurements are whole bytes/s.    *)
(***************************************************************************)
KalScale == 100
KalGain == 1000
\* core.py 65: p00 = p11 = 1000.0
KalP0 == 100000
\* utils.py 49-51: KALMAN_Q_SPEED = 0.1, KALMAN_Q_ACCEL = 0.05, KALMAN_R = 0.5
KALMAN_Q_SPEED == 10
KALMAN_Q_ACCEL == 5
KALMAN_R == 50
\* core.py 73: dt <= 0.01 (seconds) is one centisecond
KalMinDt == 1

\* ExtendedKalman.__init__
KalmanNew ==
    [speed |-> 0, accel |-> 0,
     p00 |-> KalP0, p01 |-> 0, p10 |-> 0, p11 |-> KalP0,
     last_time |-> 0, initialized |-> FALSE]

\* a mutant of KalmanFirst: the first sample is blended with the old estimate
KalmanFirst_Blends(k, measurement, now) ==
    [kal |-> [k EXCEPT !.speed = (k.speed + measurement) \div 2,
                       !.last_time = now, !.initialized = TRUE],
     out |-> <<(k.speed + measurement) \div 2, k.accel>>]

\* core.py 69-71: the first sample after construction or reset
KalmanFirst(k, measurement, now) ==
    [kal |-> [k EXCEPT !.speed = measurement, !.last_time = now,
                       !.initialized = TRUE],
     out |-> <<measurement, 0>>]

\* core.py 74-93: predict and correct
KalmanStep(k, measurement, now) ==
    LET dt == now - k.last_time
        pred_speed == k.speed + (k.accel * dt) \div CsPerSec
        p00_pred == k.p00 + (dt * (k.p10 + k.p01)) \div CsPerSec
                          + (dt * ((dt * k.p11) \div CsPerSec)) \div CsPerSec
                          + KALMAN_Q_SPEED
        p01_pred == k.p01 + (dt * k.p11) \div CsPerSec
        p10_pred == k.p10 + (dt * k.p11) \div CsPerSec
        p11_pred == k.p11 + KALMAN_Q_ACCEL
        s == p00_pred + KALMAN_R
        k0 == (p00_pred * KalGain) \div s
        k1 == (p10_pred * KalGain) \div s
        innovation == measurement - pred_speed
        speed == pred_speed + (k0 * innovation) \div KalGain
        accel == k.accel + (k1 * innovation) \div KalGain
    IN  IF Abs(s) < 1
        THEN [kal |-> [k EXCEPT !.last_time = now], out |-> <<k.speed, k.accel>>]
        ELSE [kal |-> [k EXCEPT !.last_time = now,
                                !.speed = speed, !.accel = accel,
                                !.p00 = ((KalGain - k0) * p00_pred) \div KalGain,
                                !.p01 = ((KalGain - k0) * p01_pred) \div KalGain,
                                !.p10 = p10_pred - (k1 * p00_pred) \div KalGain,
                                !.p11 = p11_pred - (k1 * p01_pred) \div KalGain],
              out |-> <<speed, accel>>]

\* ExtendedKalman.update; measurement is already in hundredths
KalmanUpdate(k, measurement, now) ==
    IF ~k.initialized THEN KalmanFirst(k, measurement, now)
    ELSE IF now - k.last_time <= KalMinDt
         THEN [kal |-> k, out |-> <<k.speed, k.accel>>]
    ELSE KalmanStep(k, measurement, now)

\* a mutant of KalmanReset: the initialized flag is left set
KalmanReset_KeepsInitialized(k) ==
    [k EXCEPT !.speed = 0, !.accel = 0, !.p00 = KalP0, !.p01 = 0,
              !.p10 = 0, !.p11 = KalP0]

\* ExtendedKalman.reset (last_time is not reset)
KalmanReset(k) ==
    [k EXCEPT !.speed = 0, !.accel = 0, !.p00 = KalP0, !.p01 = 0,
              !.p10 = 0, !.p11 = KalP0, !.initialized = FALSE]

\* ---- harness: any sequence of update / reset calls
MaxKalCalls == 4
KalMeasurements == {0, 1000, 1500}
KalTimes == {100, 101, 102, 200}

KalInit ==
    /\ kal = KalmanNew
    /\ kal_ret = <<0, 0>>
    /\ kal_in = [measurement |-> 0, now |-> 0]
    /\ kal_op = "new"
    /\ kal_updates = 0
    /\ kal_dirty = FALSE
    /\ kal_n = 0

KalCallUpdate ==
    /\ kal_n < MaxKalCalls
    /\ \E m \in KalMeasurements, now \in KalTimes :
         LET r == KalmanUpdate(kal, m * KalScale, now)
         IN  /\ kal' = r.kal
             /\ kal_ret' = r.out
             /\ kal_in' = [measurement |-> m * KalScale, now |-> now]
    /\ kal_op' = "update"
    /\ kal_updates' = kal_updates + 1
    /\ kal_n' = kal_n + 1
    /\ UNCHANGED kal_dirty

KalCallReset ==
    /\ kal_n < MaxKalCalls
    /\ kal' = KalmanReset(kal)
    /\ kal_op' = "reset"
    /\ kal_updates' = 0
    /\ kal_dirty' = (kal.accel # 0)
    /\ kal_n' = kal_n + 1
    /\ UNCHANGED <<kal_ret, kal_in>>

KalNext ==
    \/ KalCallUpdate /\ UNCHANGED <<pidVars, quantVars, ptVars, entityVars>>
    \/ KalCallReset /\ UNCHANGED <<pidVars, quantVars, ptVars, entityVars>>

(***************************************************************************)
(* Claims about ExtendedKalman, checked under SpecKalman.                  *)
(***************************************************************************)

\* C8: the first update after construction or after reset, with measurement
\* m, returns exactly (m, 0.0) and sets the speed estimate to m, whatever m
\* is and whatever samples were processed before the reset.
C8_FirstUpdateReturnsMeasurement ==
    [][ (kal_op' = "update" /\ kal_updates = 0)
        => (/\ kal_ret' = <<kal_in'.measurement, 0>>
            /\ kal'.speed = kal_in'.measurement
            /\ kal'.initialized) ]_vars

\* C8 witness: samples were filtered (the acceleration estimate was non-zero),
\* the filter was reset, and the one update made since returned its
\* (non-zero) measurement with zero acceleration.
C8_Witness ==
    /\ kal_op = "update"
    /\ kal_dirty
    /\ kal_updates = 1
    /\ kal_in.measurement > 0
    /\ kal_ret = <<kal_in.measurement, 0>>

(***************************************************************************)
(* AdaptiveQuantizer.  Limits and steps are whole bytes/s as in the code;  *)
(* current_speed and target are whole bytes/s; trend is in thousandths.    *)
(* The comparisons of ratio = safe_div(current_speed, target, 1) with      *)
(* 1.2, 1.05 and 0.8 are made exactly, by cross-multiplication.            *)
(***************************************************************************)
\* utils.py 38
MIN_LIMIT == 4096
\* utils.py 47: C.QUANT_STEPS
QUANT_STEPS == [finish |-> 256, steady |-> 512, catch |-> 2048, warmup |-> 4096]
\* core.py 156-157: smallest and largest step
QuantStepMin == 256
QuantStepMax == 8192
\* core.py 156: abs(trend) > 0.1, in thousandths
QuantTrendThreshold == 100

\* safe_div(current_speed, target, 1) > num / 100, for target >= 0
\* (utils.py 131-135: the default 1 is returned when target is 0)
RatioAbove(current_speed, target, num) ==
    IF target = 0 THEN 100 > num ELSE current_speed * 100 > num * target

\* core.py 147-157: the step in force
QuantStep(phase, current_speed, target, trend) ==
    LET base == QUANT_STEPS[phase]
        step1 == IF phase = "finish" THEN 256
                 ELSE IF RatioAbove(current_speed, target, 120) THEN base * 2
                 ELSE IF RatioAbove(current_speed, target, 105) THEN base
                 ELSE IF RatioAbove(current_speed, target, 80) THEN base \div 2
                 ELSE base
        step2 == IF Abs(trend) > QuantTrendThreshold
                 THEN Max(QuantStepMin, step1 \div 2) ELSE step1
    IN  clamp(step2, QuantStepMin, QuantStepMax)

\* AdaptiveQuantizer.quantize
quantize(limit, phase, current_speed, target, trend) ==
    IF limit <= 0 THEN limit
    ELSE LET step == QuantStep(phase, current_speed, target, trend)
         IN  Max(MIN_LIMIT, ((limit + step \div 2) \div step) * step)

\* ---- harness: quantize applied to an input, then to its own output
QuantLimits == {-1, 0, 1, 100, 127, 128, 2047, 2048, 4095, 4096, 4097,
                6000, 8192, 12288, 20000}
QuantSpeeds == {0, 80, 100, 110, 130}
QuantTargets == {0, 100}
QuantTrends == {-200, 0, 200}

QuantInputs ==
    [limit : QuantLimits, phase : Phases, current_speed : QuantSpeeds,
     target : QuantTargets, trend : QuantTrends]

\* the quantizer harness at rest, for the specifications that do not use it
QuantIdle ==
    /\ q_in = [limit |-> 0, phase |-> "warmup", current_speed |-> 0,
               target |-> 0, trend |-> 0]
    /\ q_out = 0
    /\ q_out2 = 0
    /\ q_stage = "idle"

QuantInit ==
    /\ q_in \in QuantInputs
    /\ q_out = 0
    /\ q_out2 = 0
    /\ q_stage = "input"

QuantizeOnce ==
    /\ q_stage = "input"
    /\ q_out' = quantize(q_in.limit, q_in.phase, q_in.current_speed,
                         q_in.target, q_in.trend)
    /\ q_stage' = "once"
    /\ UNCHANGED <<q_in, q_out2>>

QuantizeAgain ==
    /\ q_stage = "once"
    /\ q_out2' = quantize(q_out, q_in.phase, q_in.current_speed,
                          q_in.target, q_in.trend)
    /\ q_stage' = "twice"
    /\ UNCHANGED <<q_in, q_out>>

QuantNext ==
    \/ QuantizeOnce /\ UNCHANGED <<pidVars, kalVars, ptVars, entityVars>>
    \/ QuantizeAgain /\ UNCHANGED <<pidVars, kalVars, ptVars, entityVars>>

(***************************************************************************)
(* Claims about AdaptiveQuantizer, checked under SpecQuant.                *)
(***************************************************************************)

\* C3: quantize is idempotent: for every raw limit and every fixed (phase,
\* current_speed, target, trend), quantize(quantize(limit, ...), ...) equals
\* quantize(limit, ...), including when the first result is the MIN_LIMIT
\* floor and the step in force is larger than MIN_LIMIT.
C3_QuantizeIdempotent ==
    q_stage = "twice" => q_out2 = q_out

(***************************************************************************)
(* PrecisionTracker.  Ratios are in thousandths (1.0 = 1000); the          *)
(* correction factors are in ten-thousandths (1.0 = 10000); the nudges     *)
(* 0.998, 0.999, 1.001, 1.002 are in thousandths.  An average is compared  *)
(* with a threshold exactly: sum > threshold * count.                      *)
(***************************************************************************)
AdjScale == 10000
NudgeScale == 1000
\* core.py 165: window = 30
PtWindow == 30
\* core.py 177: at least 5 records before any adjustment
PtMinHistory == 5
\* core.py 183: at least 3 records of a phase before it is adjusted
PtMinPhase == 3
\* core.py 190: clamp(..., 0.92, 1.08)
PtPhaseMin == 9200
PtPhaseMax == 10800
\* core.py 194-195: clamp(..., 0.95, 1.05)
PtGlobalMin == 9500
PtGlobalMax == 10500

\* whether history entry e counts for `phase` ("all": every entry counts)
OfPhase(e, phase) == phase = "all" \/ e[2] = phase

RECURSIVE SumUpTo(_, _, _)
\* sum of the ratios of the first n entries of h recorded for phase
SumUpTo(h, n, phase) ==
    IF n = 0 THEN 0
    ELSE (IF OfPhase(h[n], phase) THEN h[n][1] ELSE 0) + SumUpTo(h, n - 1, phase)

\* sum of the ratios of the entries of h recorded for phase (core.py 184, 193)
SumOf(h, phase) == SumUpTo(h, Len(h), phase)

\* number of the entries of h recorded for phase (core.py 183, 184)
CountOf(h, phase) == Cardinality({i \in 1..Len(h) : OfPhase(h[i], phase)})

\* deque(maxlen=window).append
DequeAppend(h, x, maxlen) ==
    IF Len(h) < maxlen THEN Append(h, x) ELSE Append(Tail(h), x)

\* core.py 185-189: the nudge chosen from the phase average sum / count
PhaseNudge(sum, count) ==
    IF sum > 1005 * count THEN 998
    ELSE IF sum > 1001 * count THEN 999
    ELSE IF sum < 990 * count THEN 1002
    ELSE IF sum < 995 * count THEN 1001
    ELSE 1000

\* core.py 182-190: one phase's factor after _update
PhaseAdjAfter(h, adj, phase) ==
    LET count == CountOf(h, phase)
        sum == SumOf(h, phase)
    IN  IF count < PtMinPhase THEN adj
        ELSE clamp((adj * PhaseNudge(sum, count)) \div NudgeScale,
                   PtPhaseMin, PtPhaseMax)

\* core.py 192-195: the global factor after _update
GlobalAdjAfter(h, adj) ==
    LET count == Len(h)
        sum == SumOf(h, "all")
    IN  IF sum > 1002 * count
        THEN clamp((adj * 999) \div NudgeScale, PtGlobalMin, PtGlobalMax)
        ELSE IF sum < 995 * count
        THEN clamp((adj * 1001) \div NudgeScale, PtGlobalMin, PtGlobalMax)
        ELSE adj

\* PrecisionTracker.record (append and _update, under the tracker's lock)
PTRecord(t, ratio, phase) ==
    LET h == DequeAppend(t.history, <<ratio, phase>>, PtWindow)
    IN  IF Len(h) < PtMinHistory
        THEN [t EXCEPT !.history = h]
        ELSE [history |-> h,
              phase_adj |-> [ph \in Phases |-> PhaseAdjAfter(h, t.phase_adj[ph], ph)],
              global_adj |-> GlobalAdjAfter(h, t.global_adj)]

\* PrecisionTracker.get_adjustment
PTGetAdjustment(t, phase) ==
    (t.phase_adj[phase] * t.global_adj) \div AdjScale

\* PrecisionTracker.__init__
PTNew ==
    [history |-> <<>>,
     phase_adj |-> [ph \in Phases |-> AdjScale],
     global_adj |-> AdjScale]

PT == [history |-> pt_history, phase_adj |-> pt_phase_adj, global_adj |-> pt_global_adj]

\* ---- harness: record calls whose input is a streak that may change once
MaxPtRecords == 60
PtRatios == {500, 1000, 1003, 2000}
PtPhases == {"steady", "finish"}

PtInit ==
    /\ pt_history = PTNew.history
    /\ pt_phase_adj = PTNew.phase_adj
    /\ pt_global_adj = PTNew.global_adj
    /\ pt_switched = FALSE
    /\ pt_n = 0

PtCallRecord ==
    /\ pt_n < MaxPtRecords
    /\ \E ratio \in PtRatios, phase \in PtPhases :
         LET same == IF pt_n = 0 THEN TRUE
                     ELSE pt_history[Len(pt_history)] = <<ratio, phase>>
             t == PTRecord(PT, ratio, phase)
         IN  /\ same \/ ~pt_switched
             /\ pt_switched' = (pt_switched \/ ~same)
             /\ pt_history' = t.history
             /\ pt_phase_adj' = t.phase_adj
             /\ pt_global_adj' = t.global_adj
    /\ pt_n' = pt_n + 1

PtNext ==
    \/ PtCallRecord /\ UNCHANGED <<pidVars, kalVars, quantVars, entityVars>>

(***************************************************************************)
(* Claims about PrecisionTracker, checked under SpecTracker.               *)
(***************************************************************************)

\* C5: after any sequence of record calls every per-phase factor stays within
\* [0.92, 1.08], the global factor stays within [0.95, 1.05], and
\* get_adjustment(phase) is the product of the phase factor and the global
\* factor (hence within [0.92 * 0.95, 1.08 * 1.05]).
C5_FactorsWithinClamps ==
    /\ pt_global_adj >= PtGlobalMin /\ pt_global_adj <= PtGlobalMax
    /\ \A ph \in Phases :
         /\ pt_phase_adj[ph] >= PtPhaseMin /\ pt_phase_adj[ph] <= PtPhaseMax
         /\ PTGetAdjustment(PT, ph) * AdjScale <= pt_phase_adj[ph] * pt_global_adj
         /\ PTGetAdjustment(PT, ph) * AdjScale > pt_phase_adj[ph] * pt_global_adj - AdjScale
         /\ PTGetAdjustment(PT, ph) >= (PtPhaseMin * PtGlobalMin) \div AdjScale
         /\ PTGetAdjustment(PT, ph) <= (PtPhaseMax * PtGlobalMax) \div AdjScale

\* C5 witness: a streak of over-target ratios longer than the window has
\* driven a phase factor and the global factor onto their lower clamps.
C5_Witness ==
    /\ pt_n > PtWindow
    /\ Len(pt_history) = PtWindow
    /\ \E ph \in Phases : pt_phase_adj[ph] = PtPhaseMin
    /\ pt_global_adj = PtGlobalMin

(***************************************************************************)
(* TorrentState (core.py 434-634) and the utils.py functions it uses.      *)
(* Units: wall-clock time and durations are whole seconds; byte counters   *)
(* (uploaded, completed, total_size) are in MiB and byte rates in MiB/s,   *)
(* so that SPEED_LIMIT = 50 * 1024 * 1024 B/s is the integer 50; download  *)
(* limits and the download speed are in KiB/s, upload limits in B/s.       *)
(* None and 0.0 are both falsy wherever the code tests an optional time,   *)
(* so an absent publish_time / last_announce_time is the integer 0.        *)
(***************************************************************************)
\* utils.py 70: SPEED_LIMIT = 50 * 1024 * 1024 (B/s), in MiB/s
SPEED_LIMIT == 50
\* 1 MiB = 1024 KiB
KiBPerMiB == 1024
\* utils.py 28-29
FINISH_TIME == 30
STEADY_TIME == 120
\* utils.py 61
MAX_REANNOUNCE == 86400
\* utils.py 66-68
ANNOUNCE_INTERVAL_NEW == 1800
ANNOUNCE_INTERVAL_WEEK == 2700
ANNOUNCE_INTERVAL_OLD == 3600
\* utils.py 151-152: the age thresholds 7 * 86400 and 30 * 86400
WeekAge == 7 * 86400
MonthAge == 30 * 86400
\* core.py 530: get_tl returns 9999 when nothing is known
TlUnknown == 9999
\* core.py 585: elapsed_in_cycle > 60
NewCycleMinElapsed == 60

\* a mutant of get_phase: the finish threshold is exclusive
get_phase_FinishExclusive(tl, synced) ==
    IF ~synced THEN "warmup"
    ELSE IF tl < FINISH_TIME THEN "finish"
    ELSE IF tl <= STEADY_TIME THEN "steady"
    ELSE "catch"

\* utils.get_phase
get_phase(tl, synced) ==
    IF ~synced THEN "warmup"
    ELSE IF tl <= FINISH_TIME THEN "finish"
    ELSE IF tl <= STEADY_TIME THEN "steady"
    ELSE "catch"

\* utils.estimate_announce_interval; wall is the value of time.time()
estimate_announce_interval(time_ref, wall) ==
    LET age == wall - time_ref
    IN  IF age < WeekAge THEN ANNOUNCE_INTERVAL_NEW
        ELSE IF age < MonthAge THEN ANNOUNCE_INTERVAL_WEEK
        ELSE ANNOUNCE_INTERVAL_OLD

\* TorrentState.__init__ (the fields the rate-control core reads or writes).
\* samples is speed_tracker._samples as <<time, total_up, total_dl>> (the two
\* speed fields of a sample are never read); kalman_speed is
\* limit_controller.kalman.speed.
TorrentStateNew ==
    [cycle_start |-> 0, cycle_start_uploaded |-> 0, cycle_synced |-> FALSE,
     cycle_interval |-> 0, cycle_index |-> 0, jump_count |-> 0, last_jump |-> 0,
     time_added |-> 0, publish_time |-> 0, last_announce_time |-> 0,
     total_size |-> 0, total_uploaded_start |-> 0, session_start_time |-> 0,
     cached_tl |-> 0, cache_ts |-> 0, prev_tl |-> 0,
     last_up_limit |-> -1, last_dl_limit |-> -1, dl_limited_this_cycle |-> FALSE,
     last_reannounce |-> 0, reannounced_this_cycle |-> FALSE,
     waiting_reannounce |-> FALSE,
     last_props |-> 0, report_sent |-> FALSE,
     samples |-> <<>>, kalman_speed |-> 0]

\* TorrentState.get_announce_interval
get_announce_interval(e, wall) ==
    IF e.publish_time > 0 THEN estimate_announce_interval(e.publish_time, wall)
    ELSE IF e.time_added > 0 THEN estimate_announce_interval(e.time_added, wall)
    ELSE ANNOUNCE_INTERVAL_NEW

\* TorrentState.get_tl
get_tl(e, t) ==
    IF e.last_announce_time > 0
    THEN Max(0, e.last_announce_time + get_announce_interval(e, t) - t)
    ELSE IF e.cache_ts <= 0 THEN TlUnknown
    ELSE Max(0, e.cached_tl - (t - e.cache_ts))

\* TorrentState.get_phase
state_get_phase(e, t) == get_phase(get_tl(e, t), e.cycle_synced)

\* TorrentState.elapsed / this_time
elapsed(e, t) == IF e.cycle_start > 0 THEN Max(0, t - e.cycle_start) ELSE 0

\* TorrentState.uploaded_in_cycle / this_up
uploaded_in_cycle(e, current_uploaded) ==
    Max(0, current_uploaded - e.cycle_start_uploaded)

\* TorrentState.estimate_total
estimate_total(e, t, tl) ==
    IF 0 < tl /\ tl < MAX_REANNOUNCE THEN Max(1, elapsed(e, t) + tl)
    ELSE IF e.cycle_synced /\ e.cycle_interval > 0 THEN Max(1, e.cycle_interval)
    ELSE Max(1, elapsed(e, t))

\* a mutant of JumpSynced: the first rollover synchronises
JumpSynced_First(jump_count, last_jump) == jump_count >= 1

\* a mutant of JumpSynced: synchronisation waits for a third rollover
JumpSynced_Third(jump_count, last_jump) == jump_count >= 3 /\ last_jump > 0

\* core.py 572: the condition under which a rollover synchronises the cycle
JumpSynced(jump_count, last_jump) == jump_count >= 2 /\ last_jump > 0

\* core.py 580-593: cycle_start_uploaded chosen by a new_cycle without a jump
NewCycleBaseline(e, t, uploaded, tl, kalman_speed) ==
    LET interval == get_announce_interval(e, t)
        elapsed_in_cycle == IF 0 < tl /\ tl < interval THEN interval - tl ELSE 0
    IN  IF e.time_added > 0 /\ (t - e.time_added) < interval THEN 0
        ELSE IF elapsed_in_cycle > NewCycleMinElapsed /\ kalman_speed > 0
        THEN Max(0, uploaded - kalman_speed * elapsed_in_cycle)
        ELSE uploaded

\* TorrentState.new_cycle; limit_controller.reset() zeroes the Kalman speed
new_cycle(e, t, uploaded, tl, is_jump) ==
    LET jc == e.jump_count + 1
        sync == JumpSynced(jc, e.last_jump)
    IN  [e EXCEPT
          !.jump_count = IF is_jump THEN jc ELSE @,
          !.cycle_interval = IF is_jump /\ sync THEN t - e.last_jump ELSE @,
          !.cycle_synced = IF is_jump /\ sync THEN TRUE ELSE @,
          !.last_jump = IF is_jump THEN t ELSE @,
          !.cycle_index = IF is_jump THEN @ + 1 ELSE @,
          !.cycle_start_uploaded =
              IF is_jump THEN uploaded
              ELSE NewCycleBaseline(e, t, uploaded, tl, e.kalman_speed),
          !.last_announce_time = IF is_jump THEN t ELSE @,
          !.cycle_start = t,
          !.report_sent = FALSE,
          !.dl_limited_this_cycle = FALSE,
          !.reannounced_this_cycle = FALSE,
          !.waiting_reannounce = FALSE,
          !.last_dl_limit = -1,
          !.kalman_speed = 0,
          !.samples = <<>>]

\* TorrentState.to_db_dict / Database.save_torrent_state: the persisted
\* projection (hash, name, tid and promotion carry no rate-control state)
to_db_dict(e) ==
    [publish_time |-> e.publish_time,
     cycle_index |-> e.cycle_index,
     cycle_start |-> e.cycle_start,
     cycle_start_uploaded |-> e.cycle_start_uploaded,
     cycle_synced |-> e.cycle_synced,
     cycle_interval |-> e.cycle_interval,
     total_uploaded_start |-> e.total_uploaded_start,
     session_start_time |-> e.session_start_time,
     last_announce_time |-> e.last_announce_time]

\* TorrentState.load_from_db
load_from_db(e, data) ==
    [e EXCEPT
      !.publish_time = data.publish_time,
      !.cycle_index = data.cycle_index,
      !.cycle_start = data.cycle_start,
      !.cycle_start_uploaded = data.cycle_start_uploaded,
      !.cycle_synced = data.cycle_synced,
      !.cycle_interval = data.cycle_interval,
      !.total_uploaded_start = data.total_uploaded_start,
      !.session_start_time = data.session_start_time,
      !.last_announce_time = data.last_announce_time]

\* TorrentState.get_real_avg_speed as the pair <<uploaded, elapsed>> whose
\* quotient it returns (<<0, 1>> for the early returns); wall is wall_time()
get_real_avg_speed(e, current_uploaded, wall) ==
    IF e.session_start_time <= 0 THEN <<0, 1>>
    ELSE IF wall - e.session_start_time < 10 THEN <<0, 1>>
    ELSE <<current_uploaded - e.total_uploaded_start, wall - e.session_start_time>>

\* SpeedTracker.record
SpeedTrackerRecord(samples, t, total_up, total_dl) ==
    DequeAppend(samples, <<t, total_up, total_dl>>, 600)

\* SpeedTracker.get_avg_speeds as [up, dl, dt]: the averages are up / dt and
\* dl / dt (0 / 1 for the early returns); wall is wall_time()
get_avg_speeds(samples, wall, window) ==
    LET w == SelectSeq(samples, LAMBDA s : wall - s[1] <= window)
    IN  IF Len(w) < 2 THEN [up |-> 0, dl |-> 0, dt |-> 1]
        ELSE LET dt == w[Len(w)][1] - w[1][1]
             IN  IF dt <= 0 THEN [up |-> 0, dl |-> 0, dt |-> 1]
                 ELSE [up |-> w[Len(w)][2] - w[1][2],
                       dl |-> w[Len(w)][3] - w[1][3],
                       dt |-> dt]

(***************************************************************************)
(* DownloadLimiter.calc_dl_limit (core.py 306-346).  The reasons are       *)
(* named by tokens: "" (empty), "avg_recovered" (core.py 317, 345),        *)
(* "severe_overspeed" (328, 335), "avg_over_limit" (330), "adjusting"      *)
(* (342), "hold" (343).  The float quotient remaining / denominator / 1024 *)
(* is kept as the exact fraction num / den and compared by its floor and   *)
(* remainder.                                                              *)
(***************************************************************************)
\* utils.py 72-75
DL_LIMIT_MIN_TIME == 20
DL_LIMIT_BUFFER == 30
DL_LIMIT_MIN == 512
DL_LIMIT_ADJUST_BUFFER == 60
\* core.py 337: min(new_limit, 512000)
DlLimitCap == 512000
\* core.py 313: this_time < 2
DlMinCycleTime == 2

\* num / den > k, for den > 0 and an integer k
FracAbove(num, den, k) ==
    (num \div den) > k \/ ((num \div den) = k /\ (num % den) > 0)

\* core.py 327, 334: SPEED_LIMIT * (this_up / SPEED_LIMIT - this_time + buffer)
DlDenominator(this_up, this_time, buffer) ==
    this_up - SPEED_LIMIT * (this_time - buffer)

\* core.py 336-342: the adjusted limit, from new_limit = num / den
DlAdjusted(num, den, last_dl_limit) ==
    LET capped == (num \div den) >= DlLimitCap
        n == IF capped THEN DlLimitCap ELSE num
        d == IF capped THEN 1 ELSE den
    IN  IF FracAbove(2 * n, d, 3 * last_dl_limit)
        THEN (3 * last_dl_limit) \div 2
        ELSE IF (n \div d) < last_dl_limit
        THEN (2 * n) \div (3 * d)
        ELSE n \div d

\* a mutant of DlRecovered: the recovery is reported with an empty reason
DlRecovered_Silent(last_dl_limit) == <<-1, "">>

\* core.py 316-318: the return when the cycle average is at or below the ceiling
DlRecovered(last_dl_limit) ==
    IF last_dl_limit > 0 THEN <<-1, "avg_recovered">> ELSE <<-1, "">>

\* DownloadLimiter.calc_dl_limit (up_speed is never read)
calc_dl_limit(e, total_uploaded, total_done, total_size, eta, dl_speed, t) ==
    LET this_up == uploaded_in_cycle(e, total_uploaded)
        this_time == elapsed(e, t)
        remaining == total_size - total_done
        min_time == DL_LIMIT_MIN_TIME * (IF e.last_up_limit > 0 THEN 2 ELSE 1)
        num == remaining * KiBPerMiB * SPEED_LIMIT
        den1 == DlDenominator(this_up, this_time, DL_LIMIT_BUFFER)
        den2 == DlDenominator(this_up, this_time, DL_LIMIT_ADJUST_BUFFER)
    IN  IF this_time < DlMinCycleTime THEN <<-1, "">>
        ELSE IF this_up <= SPEED_LIMIT * this_time THEN DlRecovered(e.last_dl_limit)
        ELSE IF remaining <= 0 THEN <<-1, "">>
        ELSE IF e.last_dl_limit <= 0
        THEN IF 0 < eta /\ eta <= min_time
             THEN IF den1 <= 0 THEN <<DL_LIMIT_MIN, "severe_overspeed">>
                  ELSE <<Max(DL_LIMIT_MIN, num \div den1), "avg_over_limit">>
             ELSE <<-1, "">>
        ELSE IF this_up >= SPEED_LIMIT * this_time
        THEN IF dl_speed < 2 * e.last_dl_limit
             THEN IF den2 <= 0 THEN <<DL_LIMIT_MIN, "severe_overspeed">>
                  ELSE <<Max(DL_LIMIT_MIN, DlAdjusted(num, den2, e.last_dl_limit)),
                         "adjusting">>
             ELSE <<e.last_dl_limit, "hold">>
        ELSE <<-1, "avg_recovered">>

\* ---- harness: calc_dl_limit applied once to an entity in a running cycle
DlFixed == [cycle_start |-> 1000, total_size |-> 30000]
DlNows == {1000, 1001, 1002, 1010, 1100}
DlCycleBaselines == {0, 500}
DlUploadeds == {400, 500, 600, 1000, 1010, 5500, 6000}
DlLastDlLimits == {-1, 512, 2048}
DlLastUpLimits == {-1, 4096}
DlRemainings == {0, 100, 19000}
DlEtas == {0, 20, 40, 100}
DlSpeeds == {0, 5000}
NoOut == <<0, "none">>

DlInputs ==
    [now : DlNows, cycle_start_uploaded : DlCycleBaselines,
     uploaded : DlUploadeds, last_dl_limit : DlLastDlLimits,
     last_up_limit : DlLastUpLimits, remaining : DlRemainings,
     eta : DlEtas, dl_speed : DlSpeeds]

\* the entity the drawn fields describe
DlEntity(in) ==
    [TorrentStateNew EXCEPT
      !.cycle_start = DlFixed.cycle_start,
      !.cycle_start_uploaded = in.cycle_start_uploaded,
      !.total_size = DlFixed.total_size,
      !.last_dl_limit = in.last_dl_limit,
      !.last_up_limit = in.last_up_limit]

DlIdle ==
    /\ dl_in = [now |-> 0]
    /\ dl_out = NoOut
    /\ dl_stage = "idle"

DlInit ==
    /\ dl_in \in DlInputs
    /\ dl_in.uploaded >= dl_in.cycle_start_uploaded
    /\ dl_out = NoOut
    /\ dl_stage = "input"

DlCall ==
    /\ dl_stage = "input"
    /\ dl_out' = calc_dl_limit(DlEntity(dl_in), dl_in.uploaded,
                               DlFixed.total_size - dl_in.remaining, DlFixed.total_size,
                               dl_in.eta, dl_in.dl_speed, dl_in.now)
    /\ dl_stage' = "done"
    /\ UNCHANGED dl_in

DlNext ==
    \/ DlCall /\ UNCHANGED <<fnVars, loopVars, thrVars, clnVars, pidVars, kalVars, quantVars, ptVars, raVars, cycVars, ctlVars>>

(***************************************************************************)
(* Claims about DownloadLimiter, checked under SpecDL.                     *)
(***************************************************************************)
\* the cycle average (this_up / this_time) of the drawn input is defined and
\* at or below SPEED_LIMIT
DlAvgAtOrBelow ==
    /\ dl_in.now > DlFixed.cycle_start
    /\ dl_in.uploaded - dl_in.cycle_start_uploaded
         <= SPEED_LIMIT * (dl_in.now - DlFixed.cycle_start)

\* C4 as stated: whenever the cycle-average upload rate is at or below
\* SPEED_LIMIT, calc_dl_limit returns -1 with an empty reason, for every
\* value of the other inputs and of the entity state, including when a
\* download limit is active (last_dl_limit > 0).
C4_UnrestrictedEmptyReason ==
    (dl_stage = "done" /\ DlAvgAtOrBelow) => dl_out = <<-1, "">>

\* C4 amended: whenever the cycle-average upload rate is at or below
\* SPEED_LIMIT, calc_dl_limit returns the limit -1; the reason is
\* "avg_recovered" when a download limit is active (last_dl_limit > 0) and
\* the cycle is at least 2 s old, and is empty otherwise.
C4_UnrestrictedReasonByActiveLimit ==
    (dl_stage = "done" /\ DlAvgAtOrBelow) =>
        /\ dl_out[1] = -1
        /\ dl_out[2] = IF dl_in.last_dl_limit > 0
                          /\ dl_in.now - DlFixed.cycle_start >= DlMinCycleTime
                       THEN "avg_recovered" ELSE ""

\* C4 witness: the average is at or below the ceiling in a cycle at least
\* 2 s old while a download limit is active, and the call has returned.
C4_Witness ==
    /\ dl_stage = "done"
    /\ DlAvgAtOrBelow
    /\ dl_in.last_dl_limit > 0
    /\ dl_in.now - DlFixed.cycle_start >= DlMinCycleTime
    /\ dl_in.remaining > 0
    /\ dl_out = <<-1, "avg_recovered">>


\* a download limit is active, data remains and the cycle average of the
\* drawn input is above SPEED_LIMIT
DlActiveOverCeiling ==
    /\ dl_in.last_dl_limit > 0
    /\ dl_in.remaining > 0
    /\ dl_in.now - DlFixed.cycle_start >= DlMinCycleTime
    /\ dl_in.uploaded - dl_in.cycle_start_uploaded
         > SPEED_LIMIT * (dl_in.now - DlFixed.cycle_start)

\* C20: when a download limit L > 0 is already active and the cycle-average
\* upload rate is above the ceiling, the limit returned by calc_dl_limit is
\* an incremental step from L: never more than 1.5 x L and never less than
\* L / 1.5, except where the DL_LIMIT_MIN floor applies.
C20_StepWithinFactor ==
    (dl_stage = "done" /\ DlActiveOverCeiling) =>
        /\ 2 * dl_out[1] <= 3 * dl_in.last_dl_limit
        /\ \/ 3 * dl_out[1] >= 2 * dl_in.last_dl_limit
           \/ dl_out[1] = DL_LIMIT_MIN

\* C36: every positive download limit returned by calc_dl_limit (a new cap,
\* an adjusted cap or a held cap) is at least DL_LIMIT_MIN (512 KiB/s) and at
\* most the absolute ceiling (512000 KiB/s), and when the denominator of the
\* cap formula is not positive the result is exactly DL_LIMIT_MIN.
C36_DlLimitWithinBounds ==
    (dl_stage = "done") =>
        /\ dl_out[1] > 0 => (DL_LIMIT_MIN <= dl_out[1] /\ dl_out[1] <= DlLimitCap)
        /\ dl_out[2] = "severe_overspeed" => dl_out[1] = DL_LIMIT_MIN

\* the lower bound of C36 alone
C36_DlLimitAtLeastMin ==
    (dl_stage = "done" /\ dl_out[1] > 0) => DL_LIMIT_MIN <= dl_out[1]
(***************************************************************************)
(* ReannounceOptimizer (core.py 352-402).  Reasons: "" (empty),            *)
(* "optimised" (core.py 385), "waiting" (389), "avg_recovered" (401).      *)
(* earliest and perfect_time are kept relative to now and multiplied by    *)
(* 45, the denominator of line 375, so that earliest is exact:             *)
(*   (earliest - now) * 45 = this_up - SPEED_LIMIT * this_time  (MiB).     *)
(***************************************************************************)
\* utils.py 78-79
REANNOUNCE_MIN_INTERVAL == 900
REANNOUNCE_SPEED_SAMPLES == 300
\* core.py 362: this_time < 30
ReannounceMinCycle == 30
\* core.py 375: the divisor 45 * 1024 * 1024 (B/s), in MiB/s
ReannounceDrain == 45
\* core.py 387: earliest < perfect_time + 60
ReannounceLate == 60

\* core.py 374-377: (earliest - now) * 45
Earliest45(this_up, this_time) ==
    IF this_up > SPEED_LIMIT * this_time
    THEN this_up - SPEED_LIMIT * this_time
    ELSE 0

\* core.py 371-372: (perfect_time - now) * 45, each quotient floored
Perfect45(remaining, avg, interval) ==
    (ReannounceDrain * remaining * avg.dt) \div avg.dl
      - (ReannounceDrain * interval * SPEED_LIMIT * avg.dt) \div avg.up

\* a mutant of ReannounceTooEarly: the minimum cycle age is not checked
ReannounceTooEarly_Never(this_time) == FALSE

\* core.py 362: the cycle is too young for a forced re-announce
ReannounceTooEarly(this_time) == this_time < ReannounceMinCycle

\* ReannounceOptimizer.should_reannounce: [ret |-> <<fire, reason>>,
\* waiting |-> the value it leaves in state.waiting_reannounce]; wall is the
\* wall_time() read by get_avg_speeds and get_announce_interval
should_reannounce(e, total_uploaded, total_done, total_size, t, wall) ==
    LET this_up == uploaded_in_cycle(e, total_uploaded)
        this_time == elapsed(e, t)
        avg == get_avg_speeds(e.samples, wall, REANNOUNCE_SPEED_SAMPLES)
        remaining == total_size - total_done
        interval == get_announce_interval(e, wall)
        e45 == Earliest45(this_up, this_time)
        p45 == Perfect45(remaining, avg, interval)
        no == [ret |-> <<FALSE, "">>, waiting |-> e.waiting_reannounce]
    IN  IF e.last_reannounce > 0 /\ t - e.last_reannounce < REANNOUNCE_MIN_INTERVAL
        THEN no
        ELSE IF ReannounceTooEarly(this_time) THEN no
        ELSE IF avg.up <= SPEED_LIMIT * avg.dt \/ avg.dl <= 0 THEN no
        ELSE IF remaining <= 0 THEN no
        ELSE IF e45 + ReannounceDrain * this_time
                  < ReannounceDrain * REANNOUNCE_MIN_INTERVAL THEN no
        ELSE IF e45 > p45
        THEN IF e45 <= 0
             THEN IF this_up > SPEED_LIMIT * this_time
                  THEN [ret |-> <<TRUE, "optimised">>, waiting |-> e.waiting_reannounce]
                  ELSE no
             ELSE IF e45 < p45 + ReannounceLate * ReannounceDrain
                  THEN [ret |-> <<FALSE, "waiting">>, waiting |-> TRUE]
                  ELSE no
        ELSE no

\* ReannounceOptimizer.check_waiting_reannounce
check_waiting_reannounce(e, total_uploaded, t) ==
    LET this_up == uploaded_in_cycle(e, total_uploaded)
        this_time == elapsed(e, t)
    IN  IF ~e.waiting_reannounce THEN <<FALSE, "">>
        ELSE IF this_time < REANNOUNCE_MIN_INTERVAL THEN <<FALSE, "">>
        ELSE IF this_up < SPEED_LIMIT * this_time THEN <<TRUE, "avg_recovered">>
        ELSE <<FALSE, "">>

\* a mutant of ReannounceDone: the waiting flag is left as it was
ReannounceDone_KeepsWaiting(e, wall) ==
    [e EXCEPT !.last_reannounce = wall,
              !.reannounced_this_cycle = TRUE,
              !.last_announce_time = wall]

\* main.py 335-338: the assignments after torrents_reannounce returned; wall
\* is wall_time()
ReannounceDone(e, wall) ==
    [e EXCEPT !.last_reannounce = wall,
              !.reannounced_this_cycle = TRUE,
              !.waiting_reannounce = FALSE,
              !.last_announce_time = wall]

\* a mutant of do_reannounce: the assignments are made whether or not the
\* call raised
do_reannounce_Unguarded(e, wall, ok) == ReannounceDone(e, wall)

\* Controller._do_reannounce; ok: client.torrents_reannounce did not raise
do_reannounce(e, wall, ok) ==
    IF ok THEN ReannounceDone(e, wall) ELSE e

\* Controller._check_reannounce: [state |-> the entity it leaves,
\* fired |-> torrents_reannounce was called, check |-> what
\* check_waiting_reannounce returned (<<FALSE, "">> when not called),
\* should |-> what should_reannounce returned (likewise)]
check_reannounce(cfg, e, torrent, t, ok) ==
    LET total_size == IF torrent.total_size # 0 THEN torrent.total_size
                      ELSE e.total_size
        chk == check_waiting_reannounce(e, torrent.uploaded, t)
        sh == should_reannounce(e, torrent.uploaded, torrent.completed,
                                total_size, t, t)
        skip == [state |-> e, fired |-> FALSE,
                 check |-> <<FALSE, "">>, should |-> <<FALSE, "">>]
    IN  IF ~cfg.enable_reannounce_opt \/ notifier_paused(cfg) THEN skip
        ELSE IF total_size <= 0 THEN skip
        ELSE IF e.waiting_reannounce /\ chk[1]
        THEN [state |-> do_reannounce(e, t, ok), fired |-> TRUE,
              check |-> chk, should |-> <<FALSE, "">>]
        ELSE [state |-> IF sh.ret[1]
                        THEN do_reannounce([e EXCEPT !.waiting_reannounce = sh.waiting],
                                           t, ok)
                        ELSE [e EXCEPT !.waiting_reannounce = sh.waiting],
              fired |-> sh.ret[1],
              check |-> IF e.waiting_reannounce THEN chk ELSE <<FALSE, "">>,
              should |-> sh.ret]

\* the configuration read by the tick: Config defaults (config.py 31-32) and
\* TelegramBot.paused as constructed
DefaultConfig ==
    [enable_dl_limit |-> TRUE, enable_reannounce_opt |-> TRUE, paused |-> FALSE]

\* ---- harness: _check_reannounce applied once to an entity in a running
\* cycle whose speed tracker holds two samples
RaFixed ==
    [cycle_start |-> 100000, cycle_start_uploaded |-> 1000,
     total_size |-> 50000, time_added |-> 90000]
RaThisTimes == {0, 1, 29, 30, 900, 1000}
RaThisUps == {0, 1000, 40000, 46000, 55000}
RaSampleDts == {0, 1, 10}
RaSampleUps == {0, 40, 60, 600}
RaSampleDls == {0, 1, 50}
RaRemainings == {0, 1, 2450}
RaWaiting == BOOLEAN
RaLastReannounce == {0, 99990}
RaOk == BOOLEAN
NoRaOut == [fired |-> FALSE, check |-> <<FALSE, "none">>,
            should |-> <<FALSE, "none">>, waiting |-> FALSE]

RaInputs ==
    [this_time : RaThisTimes, this_up : RaThisUps, sample_dt : RaSampleDts,
     sample_up : RaSampleUps, sample_dl : RaSampleDls, remaining : RaRemainings,
     waiting : RaWaiting, last_reannounce : RaLastReannounce, ok : RaOk]

\* the time of the call
RaNow(in) == RaFixed.cycle_start + in.this_time

\* the torrent as the client reports it
RaTorrent(in) ==
    [uploaded |-> RaFixed.cycle_start_uploaded + in.this_up,
     completed |-> RaFixed.total_size - in.remaining,
     total_size |-> RaFixed.total_size]

\* the entity the drawn fields describe: the last sample is the one the
\* tick has just recorded; the one before it was recorded sample_dt earlier,
\* when sample_up less had been uploaded and sample_dl less downloaded
RaEntity(in) ==
    [TorrentStateNew EXCEPT
      !.cycle_start = RaFixed.cycle_start,
      !.cycle_start_uploaded = RaFixed.cycle_start_uploaded,
      !.time_added = RaFixed.time_added,
      !.total_size = RaFixed.total_size,
      !.waiting_reannounce = in.waiting,
      !.last_reannounce = in.last_reannounce,
      !.samples =
          <<<<RaNow(in) - in.sample_dt,
              RaTorrent(in).uploaded - in.sample_up,
              RaTorrent(in).completed - in.sample_dl>>,
            <<RaNow(in), RaTorrent(in).uploaded, RaTorrent(in).completed>>>>]

RaIdle ==
    /\ ra_in = [this_time |-> 0]
    /\ ra_out = NoRaOut
    /\ ra_stage = "idle"

RaInit ==
    /\ ra_in \in RaInputs
    /\ ra_in.sample_dt <= ra_in.this_time
    /\ ra_in.sample_up <= ra_in.this_up
    /\ ra_in.sample_dl <= RaFixed.total_size - ra_in.remaining
    /\ ra_out = NoRaOut
    /\ ra_stage = "input"

RaCall ==
    /\ ra_stage = "input"
    /\ LET r == check_reannounce(DefaultConfig, RaEntity(ra_in), RaTorrent(ra_in),
                                 RaNow(ra_in), ra_in.ok)
       IN  ra_out' = [fired |-> r.fired, check |-> r.check, should |-> r.should,
                      waiting |-> r.state.waiting_reannounce]
    /\ ra_stage' = "done"
    /\ UNCHANGED ra_in

RaNext ==
    \/ RaCall /\ UNCHANGED <<fnVars, loopVars, thrVars, clnVars, pidVars, kalVars, quantVars, ptVars, dlVars, cycVars, ctlVars>>

(***************************************************************************)
(* Claims about ReannounceOptimizer, checked under SpecReannounce.         *)
(***************************************************************************)
\* C7: if the current cycle has run for less than 30 seconds, no forced
\* re-announce is fired for the entity in that tick, whatever the speed,
\* size and progress inputs are: should_reannounce returns (False, ...) and
\* leaves the waiting flag as it was, and check_waiting_reannounce returns
\* (False, ...).
C7_NoReannounceInYoungCycle ==
    (ra_stage = "done" /\ ra_in.this_time < ReannounceMinCycle) =>
        /\ ~ra_out.fired
        /\ ~ra_out.should[1]
        /\ ~ra_out.check[1]
        /\ ra_out.waiting = ra_in.waiting

\* the drawn inputs pass every test of should_reannounce other than the
\* cycle age: no recent forced re-announce, window averages over the ceiling
\* and downloading, data remaining, earliest at least 900 s after the cycle
\* start, later than now and than perfect_time, but by less than 60 s
RaOtherTestsPass ==
    LET e45 == Earliest45(ra_in.this_up, ra_in.this_time)
        avg == [up |-> ra_in.sample_up, dl |-> ra_in.sample_dl, dt |-> ra_in.sample_dt]
    IN  /\ ra_in.last_reannounce = 0
        /\ ra_in.sample_dt > 0
        /\ ra_in.sample_up > SPEED_LIMIT * ra_in.sample_dt
        /\ ra_in.sample_dl > 0
        /\ ra_in.remaining > 0
        /\ e45 + ReannounceDrain * ra_in.this_time
             >= ReannounceDrain * REANNOUNCE_MIN_INTERVAL
        /\ e45 > 0
        /\ e45 > Perfect45(ra_in.remaining, avg, ANNOUNCE_INTERVAL_NEW)
        /\ e45 < Perfect45(ra_in.remaining, avg, ANNOUNCE_INTERVAL_NEW)
                   + ReannounceLate * ReannounceDrain

\* C7 witness: a cycle younger than 30 s whose inputs pass every other test
\* of should_reannounce; the tick has not fired and has not set the flag.
C7_Witness ==
    /\ ra_stage = "done"
    /\ ra_in.this_time > 0
    /\ ra_in.this_time < ReannounceMinCycle
    /\ ~ra_in.waiting
    /\ RaOtherTestsPass
    /\ ~ra_out.fired
    /\ ~ra_out.waiting

(***************************************************************************)
(* MultiWindowSpeedTracker and PrecisionLimitController (core.py 106-274). *)
(* Speeds, targets and limits are whole bytes/s; the Kalman speed and the  *)
(* weighted average are in hundredths of a byte/s (KalScale); the trend is *)
(* in thousandths; precision_adj is in ten-thousandths (AdjScale); window  *)
(* weights are in hundredths and headrooms in thousandths; now is in       *)
(* centiseconds, time_left and elapsed in whole seconds.                   *)
(***************************************************************************)
\* utils.py 53: C.SPEED_WINDOWS (seconds)
SPEED_WINDOWS == <<5, 15, 30, 60>>
\* utils.py 54-59: C.WINDOW_WEIGHTS, in hundredths, in the order of SPEED_WINDOWS
WINDOW_WEIGHTS ==
    [warmup |-> <<10, 20, 30, 40>>,
     catch  |-> <<20, 30, 30, 20>>,
     steady |-> <<30, 30, 20, 20>>,
     finish |-> <<50, 30, 15, 5>>]
\* utils.py 41-44: the 'headroom' entries of C.PID_PARAMS, in thousandths
PID_HEADROOM == [warmup |-> 1030, catch |-> 1020, steady |-> 1005, finish |-> 1001]
\* core.py 248-253: smooth_factor, in hundredths
SMOOTH_FACTOR == [finish |-> 50, steady |-> 70, catch |-> 85, warmup |-> 85]
\* core.py 109: deque(maxlen=1200)
WindowMaxLen == 1200
\* core.py 127: get_recent_trend(now, window=10)
TrendWindow == 10
\* core.py 130: fewer than 5 samples give no trend
TrendMinSamples == 5

\* the sum of the speeds of the samples <<time, speed>>
RECURSIVE SpeedSum(_)
SpeedSum(s) == IF s = <<>> THEN 0 ELSE s[1][2] + SpeedSum(Tail(s))

\* the samples not older than window seconds at time now
InWindow(samples, now, window) ==
    SelectSeq(samples, LAMBDA s : now - s[1] <= window * CsPerSec)

\* floor(a * b / c) for a, b >= 0 and c > 0, without forming a * b
MulDiv(a, b, c) == (a \div c) * b + ((a % c) * b) \div c

\* MultiWindowSpeedTracker.record
WindowRecord(samples, now, speed) == DequeAppend(samples, <<now, speed>>, WindowMaxLen)

\* core.py 120-125: the contribution <<avg * w, w>> of window number i
WindowTerm(samples, now, phase, i) ==
    LET win == InWindow(samples, now, SPEED_WINDOWS[i])
        w == WINDOW_WEIGHTS[phase][i]
    IN  IF win = <<>> THEN <<0, 0>>
        ELSE <<((SpeedSum(win) * KalScale) \div Len(win)) * w, w>>

\* MultiWindowSpeedTracker.get_weighted_avg, in hundredths
get_weighted_avg(samples, now, phase) ==
    LET t1 == WindowTerm(samples, now, phase, 1)
        t2 == WindowTerm(samples, now, phase, 2)
        t3 == WindowTerm(samples, now, phase, 3)
        t4 == WindowTerm(samples, now, phase, 4)
        weighted_sum == t1[1] + t2[1] + t3[1] + t4[1]
        total_weight == t1[2] + t2[2] + t3[2] + t4[2]
    IN  IF total_weight > 0 THEN weighted_sum \div total_weight ELSE 0

\* MultiWindowSpeedTracker.get_recent_trend, in thousandths rounded away
\* from zero, so that abs(trend) > 0.1 is decided exactly
get_recent_trend(samples, now) ==
    LET win == InWindow(samples, now, TrendWindow)
        n == Len(win)
        mid == n \div 2
        s1 == SpeedSum(SubSeq(win, 1, mid))
        s2 == SpeedSum(SubSeq(win, mid + 1, n))
        num == s2 * mid - s1 * (n - mid)
        den == s1 * (n - mid)
    IN  IF n < TrendMinSamples THEN 0
        ELSE IF den = 0 THEN 0
        ELSE IF num >= 0 THEN (num * 1000 + den - 1) \div den
        ELSE -((-num * 1000 + den - 1) \div den)

\* PrecisionLimitController.__init__
LimitControllerNew ==
    [kalman |-> KalmanNew, samples |-> <<>>, pid |-> PIDNew, smooth_limit |-> -1]

\* PrecisionLimitController.record_speed
record_speed(lc, now, speed) ==
    [lc EXCEPT !.kalman = KalmanUpdate(@, speed * KalScale, now).kal,
               !.samples = WindowRecord(@, now, speed)]

\* core.py 228: current_speed, in hundredths
CurrentSpeed(lc, now, phase) ==
    LET weighted_speed == get_weighted_avg(lc.samples, now, phase)
    IN  IF phase = "finish" /\ weighted_speed > 0 THEN weighted_speed
        ELSE IF lc.kalman.speed > 0 THEN lc.kalman.speed
        ELSE weighted_speed

\* a mutant of Smooth: the previous limit is weighted negatively
Smooth_Overshoots(limit, smooth_limit, phase) ==
    IF smooth_limit > 0 /\ smooth_limit < 2 * limit
    THEN 2 * limit - smooth_limit
    ELSE limit

\* a mutant of Smooth: the previous limit weighs more in steady and finish
Smooth_SteadyHeavier(limit, smooth_limit, phase) ==
    LET f == IF phase \in {"steady", "finish"} THEN 95 ELSE SMOOTH_FACTOR[phase]
    IN  IF smooth_limit > 0
        THEN (limit * (100 - f) + smooth_limit * f) \div 100
        ELSE limit

\* core.py 246-254: the blend of the quantized limit with the previous one
Smooth(limit, smooth_limit, phase) ==
    IF smooth_limit > 0
    THEN (limit * (100 - SMOOTH_FACTOR[phase]) + smooth_limit * SMOOTH_FACTOR[phase]) \div 100
    ELSE limit

\* core.py 258-266: the reason ("sprint" 冲刺, "stable" 稳定, "catchup" 追赶,
\* "warmup" 预热)
CalcReason(time_left, uploaded, target_total) ==
    IF time_left <= FINISH_TIME THEN "sprint"
    ELSE IF time_left <= STEADY_TIME THEN "stable"
    ELSE IF 2 * uploaded < target_total THEN "catchup"
    ELSE "warmup"

\* a mutant of LimitControllerReset: the smoothing state survives the reset
LimitControllerReset_KeepsSmooth(lc) ==
    [lc EXCEPT !.kalman = KalmanReset(@), !.samples = <<>>, !.pid = PIDReset(@)]

\* PrecisionLimitController.reset
LimitControllerReset(lc) ==
    [lc EXCEPT !.kalman = KalmanReset(@), !.samples = <<>>, !.pid = PIDReset(@),
               !.smooth_limit = -1]

\* core.py 230-234: need and ideal, from target_total = adjusted_target * total_time
CalcIdeal(adjusted_target, uploaded, time_left, elapsed_time) ==
    LET target_total == adjusted_target * (elapsed_time + time_left)
        need == Max(0, target_total - uploaded)
    IN  need \div Max(1, time_left)

\* core.py 241-242: base_limit = int(ideal * pid_output * headroom)
BaseLimit(ideal, pid_output, phase) ==
    MulDiv(MulDiv(ideal, pid_output, PidScale), PID_HEADROOM[phase], 1000)

\* PrecisionLimitController.calculate (elapsed_time is its parameter
\* 'elapsed'): [lc |-> the controller it leaves,
\* limit, reason]
calculate(lc, target, uploaded, time_left, elapsed_time, phase, now, precision_adj) ==
    Bind((target * precision_adj) \div AdjScale, LAMBDA adjusted_target :
    Bind(CurrentSpeed(lc, now, phase), LAMBDA current_speed :
    Bind(get_recent_trend(lc.samples, now), LAMBDA trend :
    Bind(CalcIdeal(adjusted_target, uploaded, time_left, elapsed_time), LAMBDA ideal :
    Bind(PIDUpdate(PIDSetPhase(lc.pid, phase), ideal, current_speed \div KalScale, now),
         LAMBDA pu :
    Bind(quantize(BaseLimit(ideal, pu.out, phase), phase, current_speed \div KalScale,
                  adjusted_target, trend), LAMBDA q :
    Bind(Smooth(q, lc.smooth_limit, phase), LAMBDA limit :
        [lc |-> [lc EXCEPT !.pid = pu.pid, !.smooth_limit = limit],
         limit |-> limit,
         quantized |-> q,
         reason |-> CalcReason(time_left, uploaded,
                               adjusted_target * (elapsed_time + time_left))])))))))
(***************************************************************************)
(* Controller (main.py): the run loop over one torrent, with the default   *)
(* configuration (no U2 cookie, so the site helper, the TID search and the *)
(* peer-list check are off; download limiting and re-announce optimisation *)
(* on; not paused).  Notifications and logging are not modelled.           *)
(***************************************************************************)
\* config.py 19-20, 69: target_bytes = int(51200 * 1024 * 0.98) B/s, in MiB/s
TargetRate == 49
\* utils.py 77: REANNOUNCE_WAIT_LIMIT (KiB/s)
REANNOUNCE_WAIT_LIMIT == 5120
\* utils.py 64, 86
CONFIG_CHECK == 30
DB_SAVE_INTERVAL == 180
\* main.py 555: tl > prev_tl + 30
JumpMargin == 30
\* utils.py 62: PROPS_CACHE, in tenths of a second
PROPS_CACHE == [finish |-> 2, steady |-> 5, catch |-> 10, warmup |-> 20]

NoState == [none |-> TRUE]
NoRow == [none |-> TRUE]
NoProps == -1

\* Stats() constructed at time t
StatsNew(t) == [start |-> t, total |-> 0, success |-> 0, precision |-> 0, uploaded |-> 0]

\* Stats.record, for ratio = uploaded / (duration * target): ratio >= 0.95
\* and abs(ratio - 1) <= PRECISION_PERFECT (0.001) are compared exactly
StatsRecord(s, uploaded, duration, target) ==
    [s EXCEPT
      !.total = @ + 1,
      !.uploaded = @ + uploaded,
      !.success = IF 100 * uploaded >= 95 * duration * target THEN @ + 1 ELSE @,
      !.precision = IF 1000 * Abs(uploaded - duration * target) <= duration * target
                    THEN @ + 1 ELSE @]

\* Controller._get_props: [props |-> the 'reannounce' property or NoProps,
\* state |-> the entity it leaves]; fetch_ok: the API rate limit admits the
\* call and torrents_properties does not raise
get_props(e, t, reannounce, fetch_ok) ==
    IF e.last_props > 0 /\ 10 * (t - e.last_props) < PROPS_CACHE[state_get_phase(e, t)]
    THEN [props |-> NoProps, state |-> e]
    ELSE IF ~fetch_ok THEN [props |-> NoProps, state |-> e]
    ELSE [props |-> reannounce, state |-> [e EXCEPT !.last_props = t]]

\* Controller._report: [state, tracker, stats, sent]
report(e, torrent, t, tracker, st) ==
    LET duration == Max(1, elapsed(e, t))
        uploaded == uploaded_in_cycle(e, torrent.uploaded)
        ratio == (uploaded * 1000) \div (duration * TargetRate)
    IN  IF e.report_sent
        THEN [state |-> e, tracker |-> tracker, stats |-> st, sent |-> FALSE]
        ELSE [state |-> [e EXCEPT !.report_sent = TRUE],
              tracker |-> PTRecord(tracker, ratio, state_get_phase(e, t)),
              stats |-> StatsRecord(st, uploaded, duration, TargetRate),
              sent |-> TRUE]

\* Controller._calc_upload_limit: [limit, state].  record_speed leaves the
\* measured speed in kalman.speed on the first update after a reset (core.py
\* 68-72); the model keeps the measured speed on later updates too.
\* PrecisionLimitController.calculate with the physical cap and the progress
\* protection (main.py 372-398) is represented by its result pipeline_limit:
\* it writes no field that this specification reads.
calc_upload_limit(cfg, e, torrent, t, pipeline_limit) ==
    LET s == [e EXCEPT !.kalman_speed = torrent.upspeed]
        real == get_real_avg_speed(s, torrent.uploaded, t)
    IN  IF notifier_paused(cfg) THEN [limit |-> -1, state |-> e]
        ELSE IF 100 * real[1] > 105 * SPEED_LIMIT * real[2]
        THEN [limit |-> MIN_LIMIT, state |-> s]
        ELSE IF s.waiting_reannounce
        THEN [limit |-> REANNOUNCE_WAIT_LIMIT * 1024, state |-> s]
        ELSE [limit |-> pipeline_limit, state |-> s]

\* main.py 36-37, 416: the ACTIVE states whose lower-cased name contains
\* 'download' or 'stalled'
DownloadOrStalled == {"downloading", "stalledUP", "stalledDL"}

\* Controller._calc_download_limit
calc_download_limit(cfg, e, torrent, t) ==
    LET total_size == IF torrent.total_size # 0 THEN torrent.total_size
                      ELSE e.total_size
    IN  IF ~cfg.enable_dl_limit \/ notifier_paused(cfg) THEN <<-1, "">>
        ELSE IF total_size <= 0 THEN <<-1, "">>
        ELSE IF torrent.state \notin DownloadOrStalled
        THEN (IF e.last_dl_limit > 0 THEN <<-1, "finished">> ELSE <<-1, "">>)
        ELSE calc_dl_limit(e, torrent.uploaded, torrent.completed, total_size,
                           torrent.eta, torrent.dlspeed, t)

\* main.py 514-530: the object created for a hash not in Controller.states
Hydrate(row, torrent, t) ==
    LET s0 == IF row = NoRow THEN TorrentStateNew
              ELSE load_from_db(TorrentStateNew, row.data)
        s1 == [s0 EXCEPT !.time_added = torrent.added_on,
                         !.total_size = torrent.total_size]
    IN  IF s1.session_start_time <= 0
        THEN [s1 EXCEPT !.total_uploaded_start = torrent.uploaded,
                        !.session_start_time = t]
        ELSE s1

\* main.py 545-551: the cache update and the tl the tick works with
TickTl(e, t, props) ==
    IF props # NoProps /\ 0 < props /\ props < MAX_REANNOUNCE /\ e.last_announce_time = 0
    THEN props
    ELSE get_tl(e, t)

\* main.py 555: is_jump
IsJump(e, tl) == e.cycle_start > 0 /\ tl > e.prev_tl + JumpMargin

\* main.py 509-536: the entity the tick works on, after the speed sample
ProcessEntity(e0, row, torrent, t) ==
    LET s1 == IF e0 = NoState THEN Hydrate(row, torrent, t) ELSE e0
    IN  [s1 EXCEPT
          !.total_size = IF @ <= 0 THEN torrent.total_size ELSE @,
          !.samples = SpeedTrackerRecord(@, t, torrent.uploaded, torrent.completed)]

\* a mutant of ProcessCache: the cache update clears the waiting flag
ProcessCache_ClearsWaiting(e, t, props) ==
    [e EXCEPT !.waiting_reannounce = FALSE]

\* main.py 546-548: the time-left cache update
ProcessCache(e, t, props) ==
    IF props # NoProps /\ 0 < props /\ props < MAX_REANNOUNCE
    THEN [e EXCEPT !.cached_tl = props, !.cache_ts = t]
    ELSE e

\* a mutant of ProcessReport: every tick reports
ProcessReport_Always(e, torrent, t, tracker, st, is_jump) ==
    report(e, torrent, t, tracker, st)

\* main.py 574-576: the report of the cycle that ended
ProcessReport(e, torrent, t, tracker, st, is_jump) ==
    IF is_jump THEN report(e, torrent, t, tracker, st)
    ELSE [state |-> e, tracker |-> tracker, stats |-> st, sent |-> FALSE]

\* main.py 574-582: the new cycle and prev_tl
ProcessCycle(e, rep, torrent, t, tl, is_jump) ==
    LET s4 == IF e.cycle_start = 0 \/ is_jump
              THEN new_cycle(rep.state, t, torrent.uploaded, tl, is_jump)
              ELSE rep.state
    IN  [s4 EXCEPT !.prev_tl = tl]

\* main.py 611-625: the limits kept in the entity
ProcessLimits(e, up_limit, dl) ==
    IF dl[1] # e.last_dl_limit
    THEN [e EXCEPT
           !.last_up_limit = up_limit,
           !.dl_limited_this_cycle = IF dl[1] > 0 THEN TRUE ELSE @,
           !.last_dl_limit = dl[1]]
    ELSE [e EXCEPT !.last_up_limit = up_limit]

\* Controller._process: [state, tracker, stats] it leaves and what it did.
\* self.notifier.paused is read three times (main.py 352, 402, 427), and the
\* command thread may write it in between: cfg, cfg_dl and cfg_ra are the
\* configuration as each read finds it
process_reads(cfg, cfg_dl, cfg_ra, e0, row, torrent, t, in, tracker, st) ==
    Bind(ProcessEntity(e0, row, torrent, t), LAMBDA s2 :
    Bind(get_props(s2, t, torrent.reannounce, in.fetch_ok), LAMBDA gp :
    Bind(TickTl(gp.state, t, gp.props), LAMBDA tl :
    Bind(ProcessCache(gp.state, t, gp.props), LAMBDA s3 :
    Bind(IsJump(s3, tl), LAMBDA is_jump :
    Bind(ProcessReport(s3, torrent, t, tracker, st, is_jump), LAMBDA rep :
    Bind(ProcessCycle(s3, rep, torrent, t, tl, is_jump), LAMBDA s5 :
    Bind(calc_upload_limit(cfg, s5, torrent, t, in.pipeline_limit), LAMBDA up :
    Bind(calc_download_limit(cfg_dl, up.state, torrent, t), LAMBDA dl :
    Bind(check_reannounce(cfg_ra, up.state, torrent, t, in.ra_ok), LAMBDA ra :
        [state |-> ProcessLimits(ra.state, up.limit, dl),
         tracker |-> rep.tracker, stats |-> rep.stats,
         created |-> e0 = NoState, hydrated |-> e0 = NoState /\ row # NoRow,
         before |-> IF e0 = NoState THEN Hydrate(row, torrent, t) ELSE e0,
         tl |-> tl, is_jump |-> is_jump, reported |-> rep.sent,
         new_cycle |-> (s3.cycle_start = 0 \/ is_jump),
         up_limit |-> up.limit, dl |-> dl,
         dl_action |-> dl[1] # ra.state.last_dl_limit,
         attempted |-> ra.fired,
         fired |-> ra.fired /\ in.ra_ok]))))))))))

\* Controller._process when no command arrives during it
process(cfg, e0, row, torrent, t, in, tracker, st) ==
    process_reads(cfg, cfg, cfg, e0, row, torrent, t, in, tracker, st)

\* Controller._save_all_to_db; anns is bookkeeping: the number of tracker
\* announces that had happened when the saved state was current
save_all_to_db(d, e, st, anns) ==
    [row |-> IF e = NoState THEN d.row ELSE [data |-> to_db_dict(e), anns |-> anns],
     stats |-> st]

\* Controller._check_config (main.py 200-219): [ctl, db]
check_config(c, d, e, st, t, anns) ==
    IF t - c.last_config_check < CONFIG_CHECK THEN [ctl |-> c, db |-> d]
    ELSE IF t - c.last_db_save > DB_SAVE_INTERVAL
    THEN [ctl |-> [last_config_check |-> t, last_db_save |-> t],
          db |-> save_all_to_db(d, e, st, anns)]
    ELSE [ctl |-> [c EXCEPT !.last_config_check = t], db |-> d]

\* Controller.__init__ (main.py 63-68, 103): Stats restored from the database
StatsLoad(d, t) ==
    IF d.stats = NoRow THEN StatsNew(t) ELSE d.stats

(***************************************************************************)
(* One TorrentState object driven the way Controller._process drives it    *)
(* (main.py 555, 574-577): new_cycle is called without a jump while        *)
(* cycle_start is 0 and with a jump afterwards; the object may be replaced *)
(* by a fresh one hydrated from its own persisted projection (main.py      *)
(* 514-530).                                                               *)
(***************************************************************************)
MaxCycCalls == 4
CycStart == [now |-> 1000000, uploaded |-> 5000]
CycTimeAddeds == {0, 999000, 100000}
CycSteps == {1, 1800}
CycUploads == {0, 1000}
CycTls == {0, 1700}
CycSpeeds == {0, 3000}
CycTargets == {100000}
CycMarks == {"report", "reannounce", "dl_limit", "waiting"}

CycIdle ==
    /\ cyc = TorrentStateNew
    /\ cyc_prev = TorrentStateNew
    /\ cyc_in = [now |-> 0]
    /\ cyc_op = "idle"
    /\ cyc_n = 0
    /\ cyc_lc = LimitControllerNew
    /\ cyc_lc_prev = LimitControllerNew

\* the object _process creates for a hash it has not seen (main.py 514-530)
CycInit ==
    /\ \E ta \in CycTimeAddeds :
         cyc = [TorrentStateNew EXCEPT !.time_added = ta,
                                       !.total_uploaded_start = CycStart.uploaded,
                                       !.session_start_time = CycStart.now]
    /\ cyc_prev = cyc
    /\ cyc_in = [now |-> CycStart.now, uploaded |-> CycStart.uploaded,
                 tl |-> 0, is_jump |-> FALSE]
    /\ cyc_op = "new"
    /\ cyc_n = 0
    /\ cyc_lc = LimitControllerNew
    /\ cyc_lc_prev = LimitControllerNew

\* the object of a torrent added 1000 s before the time of CycStart
EstInit == CycInit /\ cyc.time_added = 999000

\* main.py 574-577: new_cycle, which resets the limit controller (core.py
\* 601), with the arguments drawn from the given sets
CycNewCycleFrom(steps, uploads, tls) ==
    /\ cyc_n < MaxCycCalls
    /\ \E dt \in steps, du \in uploads, tl \in tls :
         LET in == [now |-> cyc_in.now + dt, uploaded |-> cyc_in.uploaded + du,
                    tl |-> tl, is_jump |-> cyc.cycle_start > 0]
         IN  /\ cyc_in' = in
             /\ cyc' = new_cycle(cyc, in.now, in.uploaded, in.tl, in.is_jump)
    /\ cyc_lc' = LimitControllerReset(cyc_lc)
    /\ cyc_prev' = cyc
    /\ cyc_lc_prev' = cyc_lc
    /\ cyc_op' = "new_cycle"
    /\ cyc_n' = cyc_n + 1

CycCallNewCycle == CycNewCycleFrom(CycSteps, CycUploads, CycTls)

\* a rollover a full announce interval after the previous call
EstCallNewCycle == CycNewCycleFrom({ANNOUNCE_INTERVAL_NEW}, {1000}, {ANNOUNCE_INTERVAL_NEW})

\* main.py 514-530: the object is dropped and a fresh one hydrated
CycReload ==
    /\ cyc_n < MaxCycCalls
    /\ cyc.cycle_start > 0
    /\ cyc' = [load_from_db(TorrentStateNew, to_db_dict(cyc))
                 EXCEPT !.time_added = cyc.time_added]
    /\ cyc_lc' = LimitControllerNew
    /\ cyc_prev' = cyc
    /\ cyc_lc_prev' = cyc_lc
    /\ cyc_op' = "reload"
    /\ cyc_n' = cyc_n + 1
    /\ UNCHANGED cyc_in

\* a tick of a running cycle, one second after the previous call: the speed
\* sample (main.py 538), then _calc_upload_limit: record_speed and, unless it
\* returns early (main.py 363-370), calculate
CycTick ==
    /\ cyc_n < MaxCycCalls
    /\ cyc.cycle_start > 0
    /\ \E speed \in CycSpeeds, target \in CycTargets, tl \in CycTls, early \in BOOLEAN :
         \E t \in {cyc_in.now + 1} :
         \E lc \in {record_speed(cyc_lc, t * CsPerSec, speed)} :
         \E c \in {calculate(lc, target, uploaded_in_cycle(cyc, cyc_in.uploaded),
                              tl, elapsed(cyc, t), get_phase(tl, cyc.cycle_synced),
                              t * CsPerSec, PTGetAdjustment(PTNew, get_phase(tl, cyc.cycle_synced)))} :
             /\ cyc_lc' = IF early THEN lc ELSE c.lc
             /\ cyc' = [cyc EXCEPT
                          !.samples = SpeedTrackerRecord(@, t, cyc_in.uploaded, 0),
                          !.kalman_speed = lc.kalman.speed \div KalScale]
             /\ cyc_in' = [cyc_in EXCEPT !.now = t]
    /\ cyc_prev' = cyc
    /\ cyc_lc_prev' = cyc_lc
    /\ cyc_op' = "tick"
    /\ cyc_n' = cyc_n + 1

\* the writes of the four per-cycle flags: _report (main.py 453-454),
\* _do_reannounce (main.py 331-342), the download-limit bookkeeping (main.py
\* 614-625) and should_reannounce (core.py 388-389)
CycMark ==
    /\ cyc.cycle_start > 0
    /\ \E k \in CycMarks :
         cyc' = CASE k = "report" ->
                       report(cyc, [uploaded |-> cyc_in.uploaded], cyc_in.now,
                              PTNew, StatsNew(0)).state
                  [] k = "reannounce" -> do_reannounce(cyc, cyc_in.now, TRUE)
                  [] k = "dl_limit" ->
                       ProcessLimits(cyc, cyc.last_up_limit, <<DL_LIMIT_MIN, "avg_over_limit">>)
                  [] k = "waiting" -> [cyc EXCEPT !.waiting_reannounce = TRUE]
    /\ cyc' # cyc
    /\ cyc_prev' = cyc
    /\ cyc_lc_prev' = cyc_lc
    /\ cyc_op' = "mark"
    /\ UNCHANGED <<cyc_in, cyc_n, cyc_lc>>

CycNext ==
    \/ CycCallNewCycle /\ UNCHANGED <<fnVars, loopVars, thrVars, clnVars, pidVars, kalVars, quantVars, ptVars, dlVars, raVars, ctlVars>>
    \/ CycReload /\ UNCHANGED <<fnVars, loopVars, thrVars, clnVars, pidVars, kalVars, quantVars, ptVars, dlVars, raVars, ctlVars>>

\* new_cycle between ticks that use the estimators and set the per-cycle flags
EstNext ==
    \/ EstCallNewCycle /\ UNCHANGED <<fnVars, loopVars, thrVars, clnVars, pidVars, kalVars, quantVars, ptVars, dlVars, raVars, ctlVars>>
    \/ CycTick /\ UNCHANGED <<fnVars, loopVars, thrVars, clnVars, pidVars, kalVars, quantVars, ptVars, dlVars, raVars, ctlVars>>
    \/ CycMark /\ UNCHANGED <<fnVars, loopVars, thrVars, clnVars, pidVars, kalVars, quantVars, ptVars, dlVars, raVars, ctlVars>>

(***************************************************************************)
(* Claims about TorrentState.new_cycle, checked under SpecCycle (C6) and    *)
(* SpecEstimation (C11).                                                   *)
(***************************************************************************)
\* C6: when new_cycle is called with is_jump = True and jump_count thereby
\* reaches 2, cycle_synced becomes True and cycle_interval equals the time
\* elapsed between this rollover and the previous one (now minus the previous
\* last_jump, which is the time of the previous rollover).
C6_SecondJumpSynchronises ==
    (cyc_op = "new_cycle" /\ cyc_in.is_jump /\ cyc.jump_count = 2) =>
        /\ cyc.cycle_synced
        /\ cyc.cycle_interval = cyc_in.now - cyc_prev.last_jump
        /\ cyc_prev.last_jump = cyc_prev.cycle_start
        /\ cyc.cycle_interval > 0

\* C6 witness: the second rollover of an object that was not synchronised
\* arrives 1800 s after the first and synchronises it.
C6_Witness ==
    /\ cyc_op = "new_cycle"
    /\ cyc_in.is_jump
    /\ cyc.jump_count = 2
    /\ ~cyc_prev.cycle_synced
    /\ cyc.cycle_synced
    /\ cyc.cycle_interval = 1800

\* C22 as stated: in every reachable state of an entity, cycle_synced is
\* True only if at least two rollovers have been observed for that entity
\* (jump_count >= 2).
C22_SyncedOnlyAfterTwoJumps ==
    cyc.cycle_synced => cyc.jump_count >= 2

\* C22 amended: cycle_synced is True only if at least two rollovers have been
\* observed for the entity, counted by cycle_index, which is persisted and
\* hydrated together with the flag; jump_count, which is not persisted, is at
\* least 2 when the flag is set by new_cycle, and a hydrated object carries
\* the flag of its snapshot whatever its jump_count is.
C22_SyncedOnlyAfterTwoCycles ==
    /\ cyc.cycle_synced => cyc.cycle_index >= 2
    /\ (cyc.cycle_synced /\ ~cyc_prev.cycle_synced) =>
          (cyc_op = "new_cycle" /\ cyc_in.is_jump /\ cyc.jump_count >= 2)
    /\ (cyc_op = "reload") => cyc.cycle_synced = cyc_prev.cycle_synced

\* C22 witness: an object hydrated from the snapshot of a synchronised one:
\* the flag is set and the object has observed no rollover itself.
C22_Witness ==
    /\ cyc_op = "reload"
    /\ cyc.cycle_synced
    /\ cyc.jump_count = 0
    /\ cyc.cycle_index >= 2

\* C11: after every TorrentState.new_cycle (cycle start or rollover) the
\* estimation state is reset: the Kalman filter is uninitialized with zero
\* speed and acceleration and the initial covariance, the multi-window
\* buffer and the raw speed-history buffer are empty, the PID is
\* reinitialized (its next update returns 1.0 for every input), the smoothing
\* state is -1, and waiting_reannounce, report_sent, dl_limited_this_cycle and
\* reannounced_this_cycle are false; the session baselines
\* (total_uploaded_start, session_start_time) and the fields fixed at
\* creation (time_added, total_size) are unchanged.
C11_NewCycleResetsEstimation ==
    cyc_op = "new_cycle" =>
        /\ ~cyc_lc.kalman.initialized
        /\ cyc_lc.kalman.speed = 0 /\ cyc_lc.kalman.accel = 0
        /\ cyc_lc.kalman.p00 = KalP0 /\ cyc_lc.kalman.p11 = KalP0
        /\ cyc_lc.kalman.p01 = 0 /\ cyc_lc.kalman.p10 = 0
        /\ cyc_lc.samples = <<>>
        /\ cyc.samples = <<>>
        /\ ~cyc_lc.pid.initialized
        /\ \A sp \in PidSetpoints, m \in PidMeasureds :
             PIDUpdate(cyc_lc.pid, sp, m, (cyc_in.now + 1) * CsPerSec).out = PidScale
        /\ cyc_lc.smooth_limit = -1
        /\ ~cyc.waiting_reannounce
        /\ ~cyc.report_sent
        /\ ~cyc.dl_limited_this_cycle
        /\ ~cyc.reannounced_this_cycle
        /\ cyc.total_uploaded_start = cyc_prev.total_uploaded_start
        /\ cyc.session_start_time = cyc_prev.session_start_time
        /\ cyc.time_added = cyc_prev.time_added
        /\ cyc.total_size = cyc_prev.total_size

\* C11 witness: a rollover of an object whose estimators had all been used
\* (Kalman initialized with a positive speed, both buffers non-empty, PID
\* initialized, a positive smoothed limit) and whose report_sent and
\* dl_limited_this_cycle flags were set.
C11_Witness ==
    /\ cyc_op = "new_cycle"
    /\ cyc_in.is_jump
    /\ cyc_lc_prev.kalman.initialized
    /\ cyc_lc_prev.kalman.speed > 0
    /\ cyc_lc_prev.samples # <<>>
    /\ cyc_prev.samples # <<>>
    /\ cyc_lc_prev.pid.initialized
    /\ cyc_lc_prev.smooth_limit > 0
    /\ cyc_prev.report_sent
    /\ cyc_prev.dl_limited_this_cycle
    /\ cyc_prev.waiting_reannounce
    /\ cyc_prev.reannounced_this_cycle
    /\ cyc_prev.session_start_time > 0
    /\ cyc_lc.smooth_limit = -1
    /\ ~cyc_lc.kalman.initialized

\* ---- the environment: one torrent in the client and its tracker schedule.
\* The tracker is announced to every interval seconds; the client's
\* 'reannounce' property is the time left until the next announce.
MaxTicks == 3
MaxRestarts == 1
TorrentFixed ==
    [total_size |-> 4000, added_on |-> 998800, interval |-> 1800]
EnvStart ==
    [now |-> 1000000, uploaded |-> 5000, completed |-> 1000,
     next_ann |-> 1000600, anns |-> 0]
\* a tick after the loop was held up for a whole announce interval with no
\* upload (the backend unreachable, main.py 693-699)
IdleInputs ==
    [dt : {1800}, up_rate : {0}, dl_rate : {1}, fetch_ok : BOOLEAN,
     ra_ok : {TRUE}, pipeline_limit : {8192}]
TickInputs ==
    [dt : {1, 900}, up_rate : {40, 60}, dl_rate : {1}, fetch_ok : BOOLEAN,
     ra_ok : {TRUE}, pipeline_limit : {8192}]
InactiveSteps == {1, 900}

\* the environment at time t, after transferring at the given rates since
\* the previous iteration
EnvAdvance(ev, t, dt, up_rate, dl_rate) ==
    LET k == IF t >= ev.next_ann
             THEN (t - ev.next_ann) \div TorrentFixed.interval + 1 ELSE 0
    IN  [uploaded |-> ev.uploaded + up_rate * dt,
         completed |-> Min(TorrentFixed.total_size, ev.completed + dl_rate * dt),
         next_ann |-> ev.next_ann + k * TorrentFixed.interval,
         anns |-> ev.anns + k,
         added_on |-> ev.added_on]

\* the environment after a forced re-announce at time t
EnvReannounced(ev, t) ==
    [ev EXCEPT !.next_ann = t + TorrentFixed.interval, !.anns = @ + 1]

\* the torrent as torrents_info and torrents_properties report it at time t
TorrentInfo(ev, t, in) ==
    LET remaining == TorrentFixed.total_size - ev.completed
    IN  [uploaded |-> ev.uploaded,
         completed |-> ev.completed,
         total_size |-> TorrentFixed.total_size,
         added_on |-> ev.added_on,
         upspeed |-> in.up_rate,
         dlspeed |-> IF remaining > 0 THEN in.dl_rate * KiBPerMiB ELSE 0,
         eta |-> IF remaining > 0 /\ in.dl_rate > 0
                 THEN remaining \div in.dl_rate ELSE 8640000,
         state |-> IF remaining > 0 THEN "downloading" ELSE "uploading",
         reannounce |-> ev.next_ann - t]

\* what an iteration that did not process the torrent leaves in obs
NoObs(op) ==
    [op |-> op, created |-> FALSE, hydrated |-> FALSE, quiet |-> FALSE,
     before |-> TorrentStateNew, tracker |-> PTNew, stats |-> StatsNew(0),
     tl |-> 0, is_jump |-> FALSE, reported |-> FALSE, new_cycle |-> FALSE,
     up_limit |-> -1, dl |-> <<-1, "">>, dl_action |-> FALSE,
     attempted |-> FALSE, fired |-> FALSE]

CtlIdle ==
    /\ clock = 0
    /\ states = NoState
    /\ ctl = [last_config_check |-> 0, last_db_save |-> 0]
    /\ stats = StatsNew(0)
    /\ db = [row |-> NoRow, stats |-> NoRow]
    /\ env = [uploaded |-> 0, completed |-> 0, next_ann |-> 0, anns |-> 0, added_on |-> 0]
    /\ obs = NoObs("idle")
    /\ ticks = 0
    /\ restarts = 0

\* Controller.__init__ at EnvStart.now with an empty database
CtlInit ==
    /\ clock = EnvStart.now
    /\ states = NoState
    /\ ctl = [last_config_check |-> EnvStart.now, last_db_save |-> EnvStart.now]
    /\ stats = StatsNew(EnvStart.now)
    /\ db = [row |-> NoRow, stats |-> NoRow]
    /\ env = [uploaded |-> EnvStart.uploaded, completed |-> EnvStart.completed,
              next_ann |-> EnvStart.next_ann, anns |-> EnvStart.anns,
              added_on |-> TorrentFixed.added_on]
    /\ obs = NoObs("init")
    /\ ticks = 0
    /\ restarts = 0

\* one iteration of Controller.run in which the torrent is active:
\* _check_config, then _process (the limits it sends to the client are not
\* state of this model)
TickWith(cfgs, inputs, max_ticks) ==
    /\ ticks < max_ticks
    /\ \E in \in inputs :
         \E t \in {clock + in.dt} :
         \E ev \in {EnvAdvance(env, t, in.dt, in.up_rate, in.dl_rate)} :
         \E cc \in {check_config(ctl, db, states, stats, t, env.anns)} :
         \E r \in {process_reads(cfgs[1], cfgs[2], cfgs[3], states, cc.db.row,
                                 TorrentInfo(ev, t, in), t, in, PT, stats)} :
             /\ clock' = t
             /\ ctl' = cc.ctl
             /\ db' = cc.db
             /\ states' = r.state
             /\ stats' = r.stats
             /\ pt_history' = r.tracker.history
             /\ pt_phase_adj' = r.tracker.phase_adj
             /\ pt_global_adj' = r.tracker.global_adj
             /\ env' = IF r.fired THEN EnvReannounced(ev, t) ELSE ev
             /\ obs' = [op |-> "tick", created |-> r.created, hydrated |-> r.hydrated,
                        quiet |-> r.hydrated /\ cc.db.row.anns = ev.anns,
                        before |-> r.before, tracker |-> PT, stats |-> stats,
                        tl |-> r.tl, is_jump |-> r.is_jump, reported |-> r.reported,
                        new_cycle |-> r.new_cycle, up_limit |-> r.up_limit,
                        dl |-> r.dl, dl_action |-> r.dl_action,
                        attempted |-> r.attempted,
                        fired |-> r.fired]
    /\ ticks' = ticks + 1
    /\ UNCHANGED <<restarts, pt_switched, pt_n>>

\* the iteration with the configuration as constructed and no command
TickWithin(inputs, max_ticks) ==
    TickWith(<<DefaultConfig, DefaultConfig, DefaultConfig>>, inputs, max_ticks)

TickFrom(inputs) == TickWithin(inputs, MaxTicks)

Tick == TickFrom(TickInputs)

TickAfterIdle == TickFrom(IdleInputs)

\* one iteration of Controller.run in which the client does not list the
\* torrent as active: _check_config, then the entity is dropped (main.py
\* 688-691)
TickInactiveWithin(max_ticks) ==
    /\ ticks < max_ticks
    /\ \E dt \in InactiveSteps :
         LET t == clock + dt
             cc == check_config(ctl, db, states, stats, t, env.anns)
         IN  /\ clock' = t
             /\ ctl' = cc.ctl
             /\ db' = cc.db
             /\ env' = EnvAdvance(env, t, dt, 0, 0)
    /\ states' = NoState
    /\ obs' = NoObs("inactive")
    /\ ticks' = ticks + 1
    /\ UNCHANGED <<stats, restarts, ptVars>>

TickInactive == TickInactiveWithin(MaxTicks)

\* the state a new process starts in (Controller.__init__; the
\* precision_tracker global of core.py 203 is constructed anew)
ProcessStart(d) ==
    /\ db' = d
    /\ states' = NoState
    /\ stats' = StatsLoad(d, clock)
    /\ ctl' = [last_config_check |-> clock, last_db_save |-> clock]
    /\ pt_history' = PTNew.history
    /\ pt_phase_adj' = PTNew.phase_adj
    /\ pt_global_adj' = PTNew.global_adj
    /\ restarts' = restarts + 1
    /\ UNCHANGED <<clock, env, ticks, pt_switched, pt_n>>

\* Controller._shutdown (SIGINT / SIGTERM) followed by a new process
Restart ==
    /\ restarts < MaxRestarts
    /\ ProcessStart(save_all_to_db(db, states, stats, env.anns))
    /\ obs' = NoObs("restart")

\* the process is killed without running _shutdown, then started again
Crash ==
    /\ restarts < MaxRestarts
    /\ ProcessStart(db)
    /\ obs' = NoObs("crash")

\* the user removes the torrent from the client and adds it again while the
\* controller holds no object for it (the process is starting, or the
\* torrent was inactive): the client's counters start from 0, the tracker is
\* announced to, and the row of the database stays (nothing calls
\* Database.delete_torrent_state)
Readd ==
    /\ states = NoState
    /\ env.uploaded > 0
    /\ env' = [uploaded |-> 0, completed |-> 0,
               next_ann |-> clock + TorrentFixed.interval, anns |-> env.anns + 1,
               added_on |-> clock]
    /\ obs' = NoObs("readd")
    /\ UNCHANGED <<clock, states, ctl, stats, db, ticks, restarts, ptVars>>

CtlNext ==
    \/ Tick /\ UNCHANGED <<fnVars, loopVars, thrVars, clnVars, pidVars, kalVars, quantVars, dlVars, raVars, cycVars>>
    \/ TickInactive /\ UNCHANGED <<fnVars, loopVars, thrVars, clnVars, pidVars, kalVars, quantVars, dlVars, raVars, cycVars>>
    \/ Restart /\ UNCHANGED <<fnVars, loopVars, thrVars, clnVars, pidVars, kalVars, quantVars, dlVars, raVars, cycVars>>
    \/ Crash /\ UNCHANGED <<fnVars, loopVars, thrVars, clnVars, pidVars, kalVars, quantVars, dlVars, raVars, cycVars>>

\* the run loop over a torrent that the user may remove and add again
ResumeNext ==
    \/ Tick /\ UNCHANGED <<fnVars, loopVars, thrVars, clnVars, pidVars, kalVars, quantVars, dlVars, raVars, cycVars>>
    \/ TickAfterIdle /\ UNCHANGED <<fnVars, loopVars, thrVars, clnVars, pidVars, kalVars, quantVars, dlVars, raVars, cycVars>>
    \/ TickInactive /\ UNCHANGED <<fnVars, loopVars, thrVars, clnVars, pidVars, kalVars, quantVars, dlVars, raVars, cycVars>>
    \/ Restart /\ UNCHANGED <<fnVars, loopVars, thrVars, clnVars, pidVars, kalVars, quantVars, dlVars, raVars, cycVars>>
    \/ Readd /\ UNCHANGED <<fnVars, loopVars, thrVars, clnVars, pidVars, kalVars, quantVars, dlVars, raVars, cycVars>>

(***************************************************************************)
(* Claims about the run loop, checked under SpecController and SpecResume. *)
(***************************************************************************)
\* the most recent iteration created the entity object from a persisted
\* snapshot with cycle_start > 0, and the tracker has not been announced to
\* since the state in the snapshot was current
HydratedMidCycle ==
    /\ obs.op = "tick"
    /\ obs.hydrated
    /\ obs.quiet
    /\ obs.before.cycle_start > 0

\* C2: when a fresh entity object is hydrated from a persisted snapshot that
\* has cycle_start > 0 and the process resumes mid-cycle (no tracker
\* re-announce happened since the snapshot), the first tick processed for
\* that entity does not register a rollover: cycle_index, cycle_start and
\* cycle_start_uploaded keep their hydrated values, no cycle report is
\* emitted and nothing is recorded in the Precision Tracker.
C2_HydratedFirstTickNoRollover ==
    HydratedMidCycle =>
        /\ ~obs.is_jump
        /\ ~obs.new_cycle
        /\ states.cycle_index = obs.before.cycle_index
        /\ states.cycle_start = obs.before.cycle_start
        /\ states.cycle_start_uploaded = obs.before.cycle_start_uploaded
        /\ ~obs.reported
        /\ PT = obs.tracker
        /\ stats = obs.stats


\* C12: exactly one cycle report per completed cycle.  A tick emits a report
\* (one precision_tracker.record and one Stats.record) if and only if it
\* detected a rollover; the report carries the upload of the cycle that ended
\* (measured from the baseline before the reset); the tick then resets the
\* cycle, so that report_sent is false at the end of every tick and no later
\* tick can report the same cycle again; a tick that starts the first cycle
\* of a new entity without a rollover reports nothing.
C12_OneReportPerRollover ==
    (obs.op = "tick") =>
        /\ obs.reported = obs.is_jump
        /\ ~states.report_sent
        /\ obs.is_jump =>
              /\ obs.new_cycle
              /\ stats.total = obs.stats.total + 1
              /\ stats.uploaded = obs.stats.uploaded
                    + Max(0, env.uploaded - obs.before.cycle_start_uploaded)
              /\ Len(pt_history) = Len(obs.tracker.history) + 1
              /\ states.cycle_index = obs.before.cycle_index + 1
        /\ ~obs.is_jump =>
              /\ stats = obs.stats
              /\ PT = obs.tracker
              /\ states.cycle_index = obs.before.cycle_index

\* C12 witness: a tick of an object that lived through the previous tick
\* detects a rollover and emits the second report of the run.
C12_Witness ==
    /\ obs.op = "tick"
    /\ ~obs.created
    /\ obs.is_jump
    /\ obs.reported
    /\ stats.total = 2
    /\ Len(pt_history) = 2

\* C12 witness of the other case is part of every run: the first tick starts
\* cycle 0 without a report.
C12_FirstCycleSilent ==
    /\ obs.op = "tick"
    /\ obs.created
    /\ ~obs.hydrated
    /\ obs.new_cycle
    /\ ~obs.reported

\* C13: for every entity with a started cycle (cycle_start > 0), including
\* entities hydrated from persisted state, cycle_start_uploaded is less than
\* or equal to the entity's current lifetime uploaded counter at the end of
\* every tick.
C13_BaselineAtMostUploaded ==
    (obs.op = "tick" /\ states.cycle_start > 0) =>
        states.cycle_start_uploaded <= env.uploaded

\* C34: when the persisted baseline an entity is hydrated with is greater
\* than its current lifetime counter, the entity is treated as at the start
\* of a new cycle (the baseline becomes the current counter), and the
\* cycle-relative upload (uploaded_in_cycle) and the session-average speed
\* (get_real_avg_speed) are never negative.
C34_StaleBaselineIsReset ==
    (obs.op = "tick") =>
        /\ (obs.hydrated /\ obs.before.cycle_start_uploaded > env.uploaded)
               => states.cycle_start_uploaded = env.uploaded
        /\ uploaded_in_cycle(states, env.uploaded) >= 0
        /\ get_real_avg_speed(states, env.uploaded, clock)[1] >= 0

\* the part of C34 about uploaded_in_cycle alone
C34_CycleUploadNotNegative ==
    (obs.op = "tick") => uploaded_in_cycle(states, env.uploaded) >= 0

\* the part of C34 about get_real_avg_speed alone
C34_AverageNotNegative ==
    (obs.op = "tick") => get_real_avg_speed(states, env.uploaded, clock)[1] >= 0
(***************************************************************************)
(* Functions of the program applied once to drawn arguments.               *)
(***************************************************************************)
FnIdle ==
    /\ fn_in = [fn |-> "none"]
    /\ fn_out = 0
    /\ fn_stage = "idle"

\* ---- TorrentState.estimate_total on an entity in a started or unstarted
\* cycle; cycle_synced is set together with a positive cycle_interval (core.py
\* 572-574)
EstCycleStarts == {0, 1000}
EstNows == {1000, 1001, 1900, 2800, 3000, 90000}
EstTls == {0, 1, 800, 86399, 86400, 99999}
EstIntervals == {0, 900, 1800}

EstimateInputs ==
    [fn : {"estimate_total"}, cycle_start : EstCycleStarts, now : EstNows,
     tl : EstTls, cycle_interval : EstIntervals]

\* the entity the drawn fields describe
EstimateEntity(in) ==
    [TorrentStateNew EXCEPT
      !.cycle_start = in.cycle_start,
      !.cycle_synced = in.cycle_interval > 0,
      !.cycle_interval = in.cycle_interval]

EstimateInit ==
    /\ fn_in \in EstimateInputs
    /\ fn_in.cycle_interval > 0 => fn_in.cycle_start > 0
    /\ fn_out = 0
    /\ fn_stage = "input"

EstimateCall ==
    /\ fn_stage = "input"
    /\ fn_in.fn = "estimate_total"
    /\ fn_out' = estimate_total(EstimateEntity(fn_in), fn_in.now, fn_in.tl)
    /\ fn_stage' = "done"
    /\ UNCHANGED fn_in

EstimateNext ==
    \/ EstimateCall /\ UNCHANGED <<loopVars, thrVars, clnVars, pidVars, kalVars, quantVars, ptVars, dlVars, raVars, cycVars, ctlVars>>

\* C14: for every entity, every now and every time-to-boundary tl >= 0, the
\* estimated total cycle duration returned by estimate_total(now, tl) is at
\* least the time already elapsed in the cycle, elapsed(now), including when
\* tl is 0 or out of range and the entity is synchronized with a known
\* cycle_interval.
C14_EstimateAtLeastElapsed ==
    fn_stage = "done" =>
        fn_out >= elapsed(EstimateEntity(fn_in), fn_in.now)

\* ---- PrecisionLimitController.calculate applied tick after tick to one
\* controller, as _calc_upload_limit drives it (main.py 361, 376-379): each
\* tick records the measured speed and computes the limit of an entity whose
\* cycle has run for elapsed seconds
MaxCalcCalls == 2
CalcStart == [now |-> 1000, elapsed |-> 100]
CalcTargets == {100000}
CalcUploadeds == {0, 100000000}
CalcTls == {10, 100, 600}
CalcSpeeds == {0, 3000}

CalcInit ==
    /\ fn_in = [fn |-> "calculate", now |-> CalcStart.now, elapsed |-> CalcStart.elapsed,
                uploaded |-> 0, tl |-> 0, phase |-> "warmup"]
    /\ fn_out = [lc |-> LimitControllerNew, limit |-> -1, quantized |-> -1, n |-> 0]
    /\ fn_stage = "input"

CalcCall ==
    /\ fn_in.fn = "calculate"
    /\ fn_out.n < MaxCalcCalls
    /\ \E target \in CalcTargets, uploaded \in CalcUploadeds, tl \in CalcTls,
          speed \in CalcSpeeds, synced \in BOOLEAN :
         \E t \in {fn_in.now + 1} :
         \E phase \in {get_phase(tl, synced)} :
         \E lc \in {record_speed(fn_out.lc, t * CsPerSec, speed)} :
         \E c \in {calculate(lc, target, uploaded, tl, fn_in.elapsed + 1, phase,
                             t * CsPerSec, PTGetAdjustment(PTNew, phase))} :
             /\ fn_out' = [lc |-> c.lc, limit |-> c.limit, quantized |-> c.quantized,
                           n |-> fn_out.n + 1]
             /\ fn_in' = [fn_in EXCEPT !.now = t, !.elapsed = @ + 1,
                                       !.uploaded = uploaded, !.tl = tl, !.phase = phase]
    /\ fn_stage' = "done"

CalcNext ==
    \/ CalcCall /\ UNCHANGED <<loopVars, thrVars, clnVars, pidVars, kalVars, quantVars, ptVars, dlVars, raVars, cycVars, ctlVars>>

\* C21: every upload limit produced by the PID pipeline
\* (PrecisionLimitController.calculate: quantization followed by smoothing)
\* is at least MIN_LIMIT (4096 B/s), for every input, including when the
\* cycle's target is already met (required rate 0) and after blending with
\* the previous tick's limit.
C21_LimitAtLeastMin ==
    (fn_stage = "done" /\ fn_in.fn = "calculate") => fn_out.limit >= MIN_LIMIT

\* ---- TorrentState.get_phase on an entity whose time left comes from the
\* last announce time (when set) or from the cache of the 'reannounce'
\* property
PhaseAnnounceTimes == {0, 1000}
PhaseCacheTs == {0, 990}
PhaseCachedTls == {0, 40, 130, 9000}
PhaseNows == {1000, 1010, 2679, 2680, 2770, 2771, 2900}
PhaseFixed == [time_added |-> 900]

PhaseInputs ==
    [fn : {"get_phase"}, last_announce_time : PhaseAnnounceTimes,
     cache_ts : PhaseCacheTs, cached_tl : PhaseCachedTls, now : PhaseNows,
     cycle_synced : BOOLEAN]

\* the entity the drawn fields describe
PhaseEntity(in) ==
    [TorrentStateNew EXCEPT
      !.time_added = PhaseFixed.time_added,
      !.last_announce_time = in.last_announce_time,
      !.cache_ts = in.cache_ts,
      !.cached_tl = in.cached_tl,
      !.cycle_synced = in.cycle_synced]

PhaseInit ==
    /\ fn_in \in PhaseInputs
    /\ fn_in.cache_ts = 0 => fn_in.cached_tl = 0
    /\ fn_out = "none"
    /\ fn_stage = "input"

PhaseCall ==
    /\ fn_stage = "input"
    /\ fn_in.fn = "get_phase"
    /\ fn_out' = state_get_phase(PhaseEntity(fn_in), fn_in.now)
    /\ fn_stage' = "done"
    /\ UNCHANGED fn_in

PhaseNext ==
    \/ PhaseCall /\ UNCHANGED <<loopVars, thrVars, clnVars, pidVars, kalVars, quantVars, ptVars, dlVars, raVars, cycVars, ctlVars>>

\* C23: the phase of an entity is a function of (time-to-boundary,
\* synchronized): warmup whenever not synchronized; otherwise finish if the
\* time-to-boundary is at most FINISH_TIME (30), steady if at most
\* STEADY_TIME (120), catch otherwise; the result is one of the four phases,
\* and TorrentState.get_phase(now) is this function of get_tl(now) and
\* cycle_synced.
C23_PhaseRule ==
    (fn_stage = "done" /\ fn_in.fn = "get_phase") =>
        LET tl == get_tl(PhaseEntity(fn_in), fn_in.now)
        IN  /\ fn_out \in Phases
            /\ fn_out = "warmup" <=> ~fn_in.cycle_synced
            /\ fn_out = "finish" <=> (fn_in.cycle_synced /\ tl <= 30)
            /\ fn_out = "steady" <=> (fn_in.cycle_synced /\ tl > 30 /\ tl <= 120)
            /\ fn_out = "catch" <=> (fn_in.cycle_synced /\ tl > 120)

\* C23 witness: a synchronized entity exactly FINISH_TIME before the boundary
\* computed from its last announce is in phase finish.
C23_Witness ==
    /\ fn_stage = "done"
    /\ fn_in.fn = "get_phase"
    /\ fn_in.cycle_synced
    /\ fn_in.last_announce_time > 0
    /\ get_tl(PhaseEntity(fn_in), fn_in.now) = FINISH_TIME
    /\ fn_out = "finish"

\* ---- Controller._api_ok called again and again on one controller.  Time is
\* in tenths of a second.  The calls of one tick carry the same now (main.py
\* 666, 541); a scenario is the configured api_rate_limit and the steps of
\* time between calls.
\* main.py 96: deque(maxlen=200)
ApiTimesMaxLen == 200
\* main.py 260: now - self._api_times[0] > 1, in tenths
ApiWindow == 10
MaxApiTime == 22
MaxApiAdmitted == 202
ApiScenarios ==
    [limit : {1, 2, 3}, steps : {{0, 5, 11}}]
    \cup [limit : {201}, steps : {{0}}]

\* main.py 260-261: the leading entries older than a second are dropped
ApiExpire(times, now) ==
    LET live == {i \in 1 .. Len(times) :
                   \A j \in 1 .. i : now - times[j] > ApiWindow}
    IN  SubSeq(times, Cardinality(live) + 1, Len(times))

\* Controller._api_ok: [ok, times |-> the _api_times it leaves]
api_ok(limit, times, now) ==
    IF limit <= 0 THEN [ok |-> TRUE, times |-> times]
    ELSE LET kept == ApiExpire(times, now)
         IN  IF Len(kept) >= limit THEN [ok |-> FALSE, times |-> kept]
             ELSE [ok |-> TRUE, times |-> DequeAppend(kept, now, ApiTimesMaxLen)]

ApiInit ==
    /\ \E sc \in ApiScenarios :
         fn_in = [fn |-> "api_ok", limit |-> sc.limit, steps |-> sc.steps, now |-> 0]
    /\ fn_out = [times |-> <<>>, admitted |-> <<>>, ok |-> FALSE]
    /\ fn_stage = "input"

\* one non-forced _get_props that reaches the limiter; admitted is the list
\* of the times of the calls it let through
ApiCall ==
    /\ fn_in.fn = "api_ok"
    /\ Len(fn_out.admitted) < MaxApiAdmitted
    /\ \E dt \in fn_in.steps :
         /\ fn_in.now + dt <= MaxApiTime
         /\ \E r \in {api_ok(fn_in.limit, fn_out.times, fn_in.now + dt)} :
              /\ fn_out' = [times |-> r.times,
                            admitted |-> IF r.ok THEN Append(fn_out.admitted, fn_in.now + dt)
                                         ELSE fn_out.admitted,
                            ok |-> r.ok]
              /\ fn_in' = [fn_in EXCEPT !.now = @ + dt]
    /\ fn_stage' = "done"

ApiNext ==
    \/ ApiCall /\ UNCHANGED <<loopVars, thrVars, clnVars, pidVars, kalVars, quantVars, ptVars, dlVars, raVars, cycVars, ctlVars>>

\* the number of admitted calls within the second that starts at time a
ApiAdmittedWithin(a) ==
    Cardinality({i \in 1 .. Len(fn_out.admitted) :
                   fn_out.admitted[i] >= a /\ fn_out.admitted[i] <= a + ApiWindow})

\* C24: for a configured api_rate_limit L > 0, _api_ok admits at most L
\* non-forced fetches within any window of one second, for every L and every
\* sequence of call times.
C24_AtMostLimitPerSecond ==
    (fn_in.fn = "api_ok") =>
        \A i \in 1 .. Len(fn_out.admitted) :
            ApiAdmittedWithin(fn_out.admitted[i]) <= fn_in.limit

\* ---- the blend of PrecisionLimitController.calculate (core.py 246-256)
\* tick after tick under a constant quantized limit and a constant phase
MaxSmoothTicks == 75
SmoothQs == {4096, 5000, 100000}
SmoothPrevs == {1, 4090, 4096, 4999, 5001, 200000}
\* the previous limits drawn are at most max_prev; settle ticks suffice for
\* them
SmoothRange == [max_prev |-> 200000, settle |-> 70]

SmoothInit ==
    /\ \E q \in SmoothQs, prev \in SmoothPrevs, phase \in Phases :
         /\ fn_in = [fn |-> "smooth", q |-> q, phase |-> phase, prev |-> prev]
         /\ fn_out = [smooth_limit |-> prev, n |-> 0, was_fixed |-> FALSE,
                      before |-> prev]
    /\ fn_stage = "input"

\* the limit did not change in the tick: prev' = prev
SmoothFixed(q, smooth_limit, phase) == Smooth(q, smooth_limit, phase) = smooth_limit

\* core.py 246-256 once: self._smooth_limit = limit
SmoothTick ==
    /\ fn_in.fn = "smooth"
    /\ fn_out.n < MaxSmoothTicks
    /\ fn_out' = [smooth_limit |-> Smooth(fn_in.q, fn_out.smooth_limit, fn_in.phase),
                  n |-> fn_out.n + 1,
                  was_fixed |-> SmoothFixed(fn_in.q, fn_out.smooth_limit, fn_in.phase),
                  before |-> fn_out.smooth_limit]
    /\ fn_stage' = "done"
    /\ UNCHANGED fn_in

SmoothNext ==
    \/ SmoothTick /\ UNCHANGED <<loopVars, thrVars, clnVars, pidVars, kalVars, quantVars, ptVars, dlVars, raVars, cycVars, ctlVars>>

\* C27: with a constant quantized input q >= MIN_LIMIT and a constant phase,
\* the blended limit, started from any previous limit > 0, stops changing
\* after a bounded number of ticks, and once it has stopped it stays.
C27_SmoothingSettles ==
    (fn_in.fn = "smooth") =>
        /\ fn_in.q >= MIN_LIMIT /\ fn_in.prev > 0 /\ fn_out.smooth_limit > 0
        /\ fn_out.was_fixed => SmoothFixed(fn_in.q, fn_out.smooth_limit, fn_in.phase)
        /\ fn_out.n >= SmoothRange.settle =>
             SmoothFixed(fn_in.q, fn_out.smooth_limit, fn_in.phase)

\* C27 witness: the limit moved for more than sixty ticks, came to rest and
\* was kept through the next tick
C27_Witness ==
    /\ fn_in.fn = "smooth"
    /\ fn_in.prev # fn_in.q
    /\ fn_out.n > 60
    /\ fn_out.n < SmoothRange.settle
    /\ fn_out.was_fixed
    /\ fn_out.smooth_limit # fn_in.prev
    /\ SmoothFixed(fn_in.q, fn_out.smooth_limit, fn_in.phase)

\* how far the blended limit is from the quantized input
SmoothLag(blended, q) == Abs(blended - q)

\* C35 as stated: the previous tick's limit weighs at least as much in the
\* steady and finish phases as in warmup: smooth_factor(steady) and
\* smooth_factor(finish) are each at least smooth_factor(warmup), so the
\* blended limit is at least as far from the quantized input as the blend
\* of warmup would be.
C35_SteadyFinishHeavier ==
    (fn_in.fn = "smooth" /\ fn_out.n > 0 /\ fn_in.phase \in {"steady", "finish"}) =>
        /\ SMOOTH_FACTOR[fn_in.phase] >= SMOOTH_FACTOR["warmup"]
        /\ SmoothLag(fn_out.smooth_limit, fn_in.q)
               >= SmoothLag(Smooth(fn_in.q, fn_out.before, "warmup"), fn_in.q)

\* C35, amended: the previous tick's limit weighs at most as much in the
\* steady and finish phases as in warmup: smooth_factor(steady) and
\* smooth_factor(finish) are each at most smooth_factor(warmup), so the
\* blended limit is at most as far from the quantized input as the blend of
\* warmup would be.
C35_SteadyFinishLighter ==
    (fn_in.fn = "smooth" /\ fn_out.n > 0 /\ fn_in.phase \in {"steady", "finish"}) =>
        /\ SMOOTH_FACTOR[fn_in.phase] <= SMOOTH_FACTOR["warmup"]
        /\ SmoothLag(fn_out.smooth_limit, fn_in.q)
               <= SmoothLag(Smooth(fn_in.q, fn_out.before, "warmup"), fn_in.q)

\* C35 witness: a blend of the finish phase that ends nearer to the
\* quantized input than the blend of warmup
C35_Witness ==
    /\ fn_in.fn = "smooth"
    /\ fn_in.phase = "finish"
    /\ fn_out.n > 0
    /\ fn_out.before > 0
    /\ SmoothLag(fn_out.smooth_limit, fn_in.q)
           < SmoothLag(Smooth(fn_in.q, fn_out.before, "warmup"), fn_in.q)

\* ---- safe_div (utils.py 131-135).  a and b are counted in units of 1e-11,
\* so that the threshold 1e-10 is 10 units; b may also be nan or an infinity.
\* A quotient is the exact fraction num / den with den > 0, in lowest terms.
SafeDivEps == 10
SafeDivAs == {-30, 0, 7, 1000}
SafeDivFiniteBs == {-1000, -10, -9, -1, 0, 1, 9, 10, 11, 1000}
SafeDivBs == [kind : {"fin"}, v : SafeDivFiniteBs] \cup [kind : {"nan", "inf", "-inf"}, v : {0}]
SafeDivDefaults == {0, 1, 5}

RECURSIVE Gcd(_, _)
Gcd(x, y) == IF y = 0 THEN x ELSE Gcd(y, x % y)

Fraction(num, den) ==
    LET g == Gcd(Abs(num), Abs(den))
        s == IF den < 0 THEN -1 ELSE 1
    IN  [kind |-> "fin", num |-> s * (num \div g), den |-> s * (den \div g)]

\* Python's a / b for a finite a: ZeroDivisionError for b == 0
PyTrueDiv(a, b) ==
    IF b.kind = "nan" THEN [raised |-> FALSE, value |-> [kind |-> "nan", num |-> 0, den |-> 1]]
    ELSE IF b.kind \in {"inf", "-inf"} THEN [raised |-> FALSE, value |-> Fraction(0, 1)]
    ELSE IF b.v = 0 THEN [raised |-> TRUE, value |-> Fraction(0, 1)]
    ELSE [raised |-> FALSE, value |-> Fraction(a, b.v)]

\* a mutant of SafeDivTiny: the threshold itself counts as tiny
SafeDivTiny_Inclusive(b) == b.kind = "fin" /\ Abs(b.v) <= SafeDivEps

\* utils.py 133: abs(b) < 1e-10 (False for nan and the infinities)
SafeDivTiny(b) == b.kind = "fin" /\ Abs(b.v) < SafeDivEps

\* utils.py 131-135; raised: an exception leaves the function
safe_div(a, b, default) ==
    IF (b.kind = "fin" /\ b.v = 0) \/ SafeDivTiny(b)
    THEN [raised |-> FALSE, value |-> Fraction(default, 1)]
    ELSE LET q == PyTrueDiv(a, b)
         IN  IF q.raised THEN [raised |-> FALSE, value |-> Fraction(default, 1)]
             ELSE q

SafeDivInit ==
    /\ \E a \in SafeDivAs, b \in SafeDivBs, default \in SafeDivDefaults :
         fn_in = [fn |-> "safe_div", a |-> a, b |-> b, default |-> default]
    /\ fn_out = [raised |-> FALSE, value |-> Fraction(0, 1)]
    /\ fn_stage = "input"

SafeDivCall ==
    /\ fn_in.fn = "safe_div"
    /\ fn_stage = "input"
    /\ fn_out' = safe_div(fn_in.a, fn_in.b, fn_in.default)
    /\ fn_stage' = "done"
    /\ UNCHANGED fn_in

SafeDivNext ==
    \/ SafeDivCall /\ UNCHANGED <<loopVars, thrVars, clnVars, pidVars, kalVars, quantVars, ptVars, dlVars, raVars, cycVars, ctlVars>>

\* C28: safe_div(a, b, default) returns default when b == 0 or |b| < 1e-10
\* and returns a / b otherwise, for all finite a, and never raises.
C28_SafeDiv ==
    (fn_in.fn = "safe_div" /\ fn_stage = "done") =>
        /\ ~fn_out.raised
        /\ IF fn_in.b.kind = "fin" /\ Abs(fn_in.b.v) < SafeDivEps
           THEN fn_out.value = [kind |-> "fin", num |-> fn_in.default, den |-> 1]
           ELSE IF fn_in.b.kind = "fin"
           THEN /\ fn_out.value.kind = "fin"
                /\ fn_out.value.den > 0
                /\ fn_out.value.num * fn_in.b.v = fn_in.a * fn_out.value.den
           ELSE IF fn_in.b.kind = "nan" THEN fn_out.value.kind = "nan"
           ELSE fn_out.value = [kind |-> "fin", num |-> 0, den |-> 1]

\* C28 witness: b is exactly the threshold and the quotient, not the
\* default, came back
C28_Witness ==
    /\ fn_in.fn = "safe_div"
    /\ fn_stage = "done"
    /\ fn_in.b = [kind |-> "fin", v |-> -SafeDivEps]
    /\ fn_in.a = 7
    /\ fn_out.value = [kind |-> "fin", num |-> -7, den |-> 10]

(***************************************************************************)
(* The run loop over a torrent whose upload rate exceeds the ceiling for   *)
(* part of a cycle, so that the re-announce optimiser sets the waiting     *)
(* flag, and whose re-announce calls may fail.                             *)
(***************************************************************************)
MaxWaitTicks == 8
\* the torrent was added to the client an hour before the process started;
\* 1702 MiB remain; the client announces next in 2000 s or in 3590 s (the
\* tracker's interval is longer than the one estimated from the age)
WaitStart ==
    [now |-> 1000000, uploaded |-> 5000, completed |-> 2298, added_on |-> 996400]
WaitNextAnns == {1002000, 1003590}
\* a long burst over the ceiling, a second of it while downloading, and a
\* long pause
WaitInputs ==
    [dt : {900}, up_rate : {80}, dl_rate : {0}, fetch_ok : {TRUE},
     ra_ok : BOOLEAN, pipeline_limit : {8192}]
    \cup [dt : {1}, up_rate : {80}, dl_rate : {1}, fetch_ok : {TRUE},
          ra_ok : BOOLEAN, pipeline_limit : {8192}]
    \cup [dt : {900}, up_rate : {0}, dl_rate : {0}, fetch_ok : {TRUE},
          ra_ok : BOOLEAN, pipeline_limit : {8192}]

\* Controller.__init__ at WaitStart.now with an empty database
WaitInit ==
    /\ clock = WaitStart.now
    /\ states = NoState
    /\ ctl = [last_config_check |-> WaitStart.now, last_db_save |-> WaitStart.now]
    /\ stats = StatsNew(WaitStart.now)
    /\ db = [row |-> NoRow, stats |-> NoRow]
    /\ \E a \in WaitNextAnns :
          env = [uploaded |-> WaitStart.uploaded, completed |-> WaitStart.completed,
                 next_ann |-> a, anns |-> 0, added_on |-> WaitStart.added_on]
    /\ obs = NoObs("init")
    /\ ticks = 0
    /\ restarts = 0

WaitTick == TickWithin(WaitInputs, MaxWaitTicks)

WaitNext ==
    \/ WaitTick /\ UNCHANGED <<fnVars, loopVars, thrVars, clnVars, pidVars, kalVars, quantVars, dlVars, raVars, cycVars>>

(***************************************************************************)
(* Claims about the waiting state and the forced re-announce, checked      *)
(* under SpecWaiting.                                                      *)
(***************************************************************************)
\* the most recent iteration worked on an object that the iteration before
\* it left, whose waiting flag was set, and left the flag clear
WaitingCleared ==
    /\ obs.op = "tick"
    /\ ~obs.created
    /\ obs.before.waiting_reannounce
    /\ ~states.waiting_reannounce

\* C15 as stated: once an entity's waiting-for-resync flag is set, the only
\* ways it is cleared are the execution of a forced resync for that entity
\* (the immediate fire decided by should_reannounce or the 'recovered' fire
\* decided by check_waiting_reannounce); no other operation of the tick
\* clears the flag.
C15_OnlyResyncClearsWaiting ==
    WaitingCleared => obs.fired

\* C15 amended: a tick clears a set waiting flag only by a forced resync
\* whose backend call succeeded or by the cycle reset of new_cycle, which the
\* tick runs when it detects a rollover; no other operation of the tick
\* clears the flag.
C15_ResyncOrNewCycleClearsWaiting ==
    WaitingCleared => (obs.fired \/ obs.new_cycle)

\* C15 witness: the flag was set before the tick, the tick detected no
\* rollover, fired the resync and left the flag clear.
C15_Witness ==
    /\ WaitingCleared
    /\ obs.fired
    /\ ~obs.new_cycle

\* C16: a forced resync changes entity state if and only if the backend call
\* succeeds.  On success the waiting flag is cleared, last_reannounce and the
\* announce time are set to the current time and reannounced_this_cycle is
\* set; if the call raises, waiting_reannounce, last_reannounce,
\* reannounced_this_cycle and last_announce_time keep their pre-attempt
\* values, and the tick continues: it stores the limits and prev_tl.
C16_ResyncChangesStateIffSucceeds ==
    (obs.op = "tick" /\ obs.attempted) =>
        /\ obs.fired =>
              /\ ~states.waiting_reannounce
              /\ states.last_reannounce = clock
              /\ states.reannounced_this_cycle
              /\ states.last_announce_time = clock
        /\ ~obs.fired =>
              /\ states.waiting_reannounce = obs.before.waiting_reannounce
              /\ states.last_reannounce = obs.before.last_reannounce
              /\ states.reannounced_this_cycle = obs.before.reannounced_this_cycle
              /\ states.last_announce_time = obs.before.last_announce_time
        /\ states.last_up_limit = obs.up_limit
        /\ states.last_dl_limit = obs.dl[1]
        /\ states.prev_tl = obs.tl

\* C16 witness: the backend call of a resync decided for a waiting entity
\* raised; the flag is still set after the tick.
C16_Witness ==
    /\ obs.op = "tick"
    /\ obs.attempted
    /\ ~obs.fired
    /\ obs.before.waiting_reannounce
    /\ states.waiting_reannounce
    /\ states.last_reannounce = 0

\* C17: for one entity object, any two successfully executed forced resyncs
\* are at least REANNOUNCE_MIN_INTERVAL (900 s) apart: a tick that executes
\* one does so at least 900 s after the last_reannounce the previous one
\* left in the object.
C17_ResyncsMinIntervalApart ==
    (obs.op = "tick" /\ obs.fired /\ obs.before.last_reannounce > 0) =>
        clock - obs.before.last_reannounce >= REANNOUNCE_MIN_INTERVAL

\* C17 witness: the second successful resync of an object.
C17_Witness ==
    /\ obs.op = "tick"
    /\ ~obs.created
    /\ obs.fired
    /\ obs.before.last_reannounce > 0
    /\ states.last_reannounce = clock

(***************************************************************************)
(* Controller.run over several torrents (main.py 655-715), one step per    *)
(* call that can raise: torrents_info, each _process, each                 *)
(* torrents_set_upload_limit / torrents_set_download_limit.  The signal    *)
(* handlers installed by Controller.__init__ (main.py 109-110) call        *)
(* _shutdown in the main thread wherever the loop is.                      *)
(***************************************************************************)
MaxEntities == 2
MaxLoopTicks == 2
Hashes == 1 .. MaxEntities
\* limits a _process may ask for; 0: the limit the torrent already has
LoopUpLimits == {0, 1024, 2048}
LoopDlLimits == {0, 512}
\* where a _process raises: not at all, before main.py 610, or between the
\* upload action (610-612) and the download action (623-625)
\* "load": while the state is loaded, before main.py 530
LoopRaises == {"none", "load", "early", "mid"}
\* what torrents_info says of a torrent: not transferring (absent from the
\* list or in a state outside ACTIVE, main.py 669), active and passing
\* _should_manage, or active and excluded by it
ReportKinds == {"inactive", "managed", "unmanaged"}

NoActions == [keys |-> <<>>, hashes |-> <<>>]

\* dict.setdefault(limit, []).append(h): the keys in insertion order and the
\* list of each key
ActionsAdd(a, limit, h) ==
    IF \E i \in 1 .. Len(a.keys) : a.keys[i] = limit
    THEN [a EXCEPT !.hashes =
            [i \in 1 .. Len(a.keys) |->
               IF a.keys[i] = limit THEN Append(a.hashes[i], h) ELSE a.hashes[i]]]
    ELSE [keys |-> Append(a.keys, limit), hashes |-> Append(a.hashes, <<h>>)]

\* the loop between two iterations, as Controller.__init__ leaves it
LoopNew ==
    [pc |-> "sleep", running |-> TRUE, iters |-> 0, completed |-> FALSE,
     todo |-> <<>>, attempted |-> {}, processed |-> {}, raised |-> {},
     up_actions |-> NoActions, dl_actions |-> NoActions,
     up_next |-> 1, dl_next |-> 1,
     up_applied |-> {}, up_failed |-> {}, dl_applied |-> {}, dl_failed |-> {},
     flushed |-> FALSE,
     reported |-> [h \in Hashes |-> "inactive"], states |-> {}, had |-> {},
     unloaded |-> {}]

\* main.py 688: the hashes of the reported torrents whose state is in ACTIVE
LoopActive(r) == {h \in Hashes : r.reported[h] # "inactive"}

\* a mutant of LoopPrune: no object is deleted
LoopPrune_Keeps(objects, active) == objects

\* main.py 689-691: the objects of the torrents not active are deleted
LoopPrune(objects, active) == objects \cap active

LoopIdle == run = [pc |-> "idle"]

LoopInit == run = LoopNew

\* main.py 668-691: the statement the loop is at once nothing is left to do
\* in the current one; the pruning of Controller.states ends the iteration
LoopAdvance(r) ==
    LET r1 == IF r.pc = "process" /\ r.todo = <<>>
              THEN [r EXCEPT !.pc = "apply_up"] ELSE r
        r2 == IF r1.pc = "apply_up" /\ r1.up_next > Len(r1.up_actions.keys)
              THEN [r1 EXCEPT !.pc = "apply_dl"] ELSE r1
    IN  IF r2.pc = "apply_dl" /\ r2.dl_next > Len(r2.dl_actions.keys)
        THEN [r2 EXCEPT !.pc = "sleep", !.completed = TRUE,
                        !.states = LoopPrune(@, LoopActive(r2))]
        ELSE r2

\* main.py 655-666: while self.running, _check_config and torrents_info
LoopStart ==
    /\ run.pc = "sleep"
    /\ run.running
    /\ run.iters < MaxLoopTicks
    /\ \E ok \in BOOLEAN, rep \in [Hashes -> ReportKinds] :
         run' = IF ok
                THEN LoopAdvance(
                       [LoopNew EXCEPT !.pc = "process", !.iters = run.iters + 1,
                                       !.reported = rep,
                                       !.states = run.states, !.had = run.states,
                                       !.todo = SelectSeq([i \in Hashes |-> i],
                                                    LAMBDA h : rep[h] # "inactive")])
                ELSE [LoopNew EXCEPT !.iters = run.iters + 1,
                                     !.states = run.states, !.had = run.states]

\* a mutant of EntityRaised: the exception leaves the for loop
EntityRaised_Aborts(r, h) ==
    [r EXCEPT !.todo = <<>>, !.attempted = @ \cup {h}, !.raised = @ \cup {h}]

\* main.py 670-674: the except clause around one _process
EntityRaised(r, h) ==
    [r EXCEPT !.todo = Tail(@), !.attempted = @ \cup {h}, !.raised = @ \cup {h}]

\* main.py 610-625: the actions a _process appends
EntityActions(r, h, up, dl, raises) ==
    LET r1 == IF up # 0
              THEN [r EXCEPT !.up_actions = ActionsAdd(@, up, h)] ELSE r
    IN  IF dl # 0 /\ raises = "none"
        THEN [r1 EXCEPT !.dl_actions = ActionsAdd(@, dl, h)] ELSE r1

\* main.py 514-530: the object of h exists from here on
EntityState(r, h) == [r EXCEPT !.states = @ \cup {h}]

\* main.py 668-674: one pass of the for loop; a torrent _should_manage
\* excludes returns at main.py 504-505
LoopProcess ==
    /\ run.pc = "process"
    /\ \E up \in LoopUpLimits, dl \in LoopDlLimits, raises \in LoopRaises :
         LET h == Head(run.todo)
         IN  run' = LoopAdvance(
                 IF run.reported[h] = "unmanaged"
                 THEN [run EXCEPT !.todo = Tail(@),
                                  !.attempted = @ \cup {h},
                                  !.processed = @ \cup {h}]
                 ELSE IF raises = "load"
                 THEN EntityRaised([run EXCEPT !.unloaded = @ \cup ({h} \ run.states)], h)
                 ELSE IF raises = "early" THEN EntityRaised(EntityState(run, h), h)
                 ELSE IF raises = "mid"
                 THEN EntityRaised(EntityActions(EntityState(run, h), h, up, dl, raises), h)
                 ELSE [EntityActions(EntityState(run, h), h, up, dl, raises) EXCEPT
                         !.todo = Tail(@),
                         !.attempted = @ \cup {h},
                         !.processed = @ \cup {h}])

\* main.py 676-680: one pass of the loop over up_actions
LoopApplyUp ==
    /\ run.pc = "apply_up"
    /\ \E ok \in BOOLEAN :
         LET k == run.up_actions.keys[run.up_next]
         IN  run' = LoopAdvance(
                 IF ok
                 THEN [run EXCEPT !.up_applied = @ \cup {k}, !.up_next = @ + 1]
                 ELSE [run EXCEPT !.up_failed = @ \cup {k},
                          !.up_next = @ + 1])

\* main.py 682-686: one pass of the loop over dl_actions
LoopApplyDl ==
    /\ run.pc = "apply_dl"
    /\ \E ok \in BOOLEAN :
         LET k == run.dl_actions.keys[run.dl_next]
         IN  run' = LoopAdvance(
                 IF ok
                 THEN [run EXCEPT !.dl_applied = @ \cup {k}, !.dl_next = @ + 1]
                 ELSE [run EXCEPT !.dl_failed = @ \cup {k},
                          !.dl_next = @ + 1])

\* SIGINT / SIGTERM: the handler runs Controller._shutdown (main.py 154-188)
\* in the main thread at the statement the loop is at: running = False, the
\* state is saved, the limits are restored, and sys.exit(0) raises
\* SystemExit, which no except clause of run catches
LoopSignal ==
    /\ run.pc \in {"sleep", "process", "apply_up", "apply_dl"}
    /\ run' = [run EXCEPT !.pc = "exited", !.running = FALSE, !.flushed = TRUE]

LoopNext ==
    \/ LoopStart /\ UNCHANGED <<fnVars, thrVars, clnVars, pidVars, kalVars, quantVars, ptVars, dlVars, raVars, cycVars, ctlVars>>
    \/ LoopProcess /\ UNCHANGED <<fnVars, thrVars, clnVars, pidVars, kalVars, quantVars, ptVars, dlVars, raVars, cycVars, ctlVars>>
    \/ LoopApplyUp /\ UNCHANGED <<fnVars, thrVars, clnVars, pidVars, kalVars, quantVars, ptVars, dlVars, raVars, cycVars, ctlVars>>
    \/ LoopApplyDl /\ UNCHANGED <<fnVars, thrVars, clnVars, pidVars, kalVars, quantVars, ptVars, dlVars, raVars, cycVars, ctlVars>>
    \/ LoopSignal /\ UNCHANGED <<fnVars, thrVars, clnVars, pidVars, kalVars, quantVars, ptVars, dlVars, raVars, cycVars, ctlVars>>

(***************************************************************************)
(* Claims about the run loop over several torrents, checked under SpecLoop.*)
(***************************************************************************)
\* the keys of a dict of actions
ActionKeys(a) == {a.keys[i] : i \in 1 .. Len(a.keys)}

\* the for loop over the torrents of the current iteration has ended
LoopPastEntities ==
    \/ run.pc \in {"apply_up", "apply_dl"}
    \/ run.pc = "sleep" /\ run.completed

\* C18: within one tick, an exception raised while processing one entity does
\* not prevent the remaining active entities of that tick from being
\* processed: when the for loop has ended, _process was called for every
\* active entity.  A failed apply call for one batch of limits does not
\* prevent the other upload and download batches of that tick from being
\* applied: when the tick has ended, the apply call was made for every batch,
\* and every batch whose call did not raise is applied.
C18_FailuresAreIsolated ==
    /\ LoopPastEntities =>
          /\ run.attempted = LoopActive(run)
          /\ run.processed = LoopActive(run) \ run.raised
    /\ (run.pc = "sleep" /\ run.completed) =>
          /\ run.up_applied \cup run.up_failed = ActionKeys(run.up_actions)
          /\ run.dl_applied \cup run.dl_failed = ActionKeys(run.dl_actions)

\* C18 witness: a finished tick in which the first entity raised and a later
\* one was processed, the first upload batch failed and a later one was
\* applied, and a download batch was applied after that.
C18_Witness ==
    /\ run.pc = "sleep"
    /\ run.completed
    /\ 1 \in run.raised
    /\ run.processed # {}
    /\ Len(run.up_actions.keys) = 2
    /\ run.up_actions.keys[1] \in run.up_failed
    /\ run.up_actions.keys[2] \in run.up_applied
    /\ run.dl_applied # {}

\* C19: a shutdown request (SIGINT/SIGTERM) that arrives while a tick is in
\* progress does not interrupt that tick: when the process has exited, the
\* last tick it started had processed every entity and applied every batch
\* (or had ended with torrents_info failing).
C19_ShutdownWaitsForTick ==
    run.pc = "exited" =>
        /\ run.todo = <<>>
        /\ run.up_next > Len(run.up_actions.keys)
        /\ run.dl_next > Len(run.dl_actions.keys)


NoThread == "none"
Writers == {"w1", "w2"}
Readers == {"r1"}
Threads == Writers \cup Readers
MaxThrRecords == 3
ThrRatios == {500, 2000}
ThrStreaks == {3, 29}

ThrNoLocal == [ratio |-> 0, phase |-> "steady", p |-> 0, result |-> 0, expect |-> 0]

ThrIdle ==
    /\ thr_pc = [t \in {} |-> "idle"]
    /\ thr_local = [t \in {} |-> ThrNoLocal]
    /\ thr_lock = NoThread
    /\ thr_ghost = [log |-> <<>>, atomic |-> PTNew]

RECURSIVE PTStreak(_, _, _)
\* the tracker after k record calls with the same ratio and phase
PTStreak(k, ratio, phase) ==
    IF k = 0 THEN PTNew
    ELSE Bind(PTStreak(k - 1, ratio, phase), LAMBDA t : PTRecord(t, ratio, phase))

\* the tracker has served the main loop for a while when the threads start
ThrInit ==
    /\ \E k \in ThrStreaks :
         \E t \in {PTStreak(k, 2000, "steady")} :
           /\ pt_history = t.history
           /\ pt_phase_adj = t.phase_adj
           /\ pt_global_adj = t.global_adj
           /\ thr_ghost = [log |-> t.history, atomic |-> t]
    /\ pt_switched = FALSE
    /\ pt_n = 0
    /\ thr_pc = [t \in Threads |-> "idle"]
    /\ thr_local = [t \in Threads |-> ThrNoLocal]
    /\ thr_lock = NoThread

\* threading.Lock: a thread enters "with self._lock" only when nobody holds it
PtLockFree_Ignored(lock) == TRUE

PtLockFree(lock) == lock = NoThread

\* core.py 171-172: record is called and takes the lock
ThrRecordEnter(t) ==
    /\ t \in Writers
    /\ thr_pc[t] = "idle"
    /\ pt_n < MaxThrRecords
    /\ PtLockFree(thr_lock)
    /\ \E ratio \in ThrRatios, phase \in PtPhases :
         thr_local' = [thr_local EXCEPT ![t] = [ThrNoLocal EXCEPT !.ratio = ratio, !.phase = phase]]
    /\ thr_lock' = t
    /\ thr_pc' = [thr_pc EXCEPT ![t] = "append"]
    /\ pt_n' = pt_n + 1
    /\ UNCHANGED <<pt_history, pt_phase_adj, pt_global_adj, pt_switched, thr_ghost>>

\* core.py 173: self._history.append
ThrRecordAppend(t) ==
    /\ thr_pc[t] = "append"
    /\ \E e \in {<<thr_local[t].ratio, thr_local[t].phase>>} :
         /\ pt_history' = DequeAppend(pt_history, e, PtWindow)
         /\ thr_ghost' = [log |-> Append(thr_ghost.log, e),
                          atomic |-> PTRecord(thr_ghost.atomic, e[1], e[2])]
    /\ thr_pc' = [thr_pc EXCEPT ![t] = "update"]
    /\ UNCHANGED <<pt_phase_adj, pt_global_adj, pt_switched, pt_n, thr_local, thr_lock>>

\* core.py 176-190: _update up to the end of the loop over the phases
ThrRecordPhases(t) ==
    /\ thr_pc[t] = "update"
    /\ IF Len(pt_history) < PtMinHistory
       THEN /\ thr_pc' = [thr_pc EXCEPT ![t] = "release"]
            /\ UNCHANGED pt_phase_adj
       ELSE /\ thr_pc' = [thr_pc EXCEPT ![t] = "global"]
            /\ pt_phase_adj' = [ph \in Phases |-> PhaseAdjAfter(pt_history, pt_phase_adj[ph], ph)]
    /\ UNCHANGED <<pt_history, pt_global_adj, pt_switched, pt_n, thr_local, thr_lock, thr_ghost>>

\* core.py 192-195: the global factor
ThrRecordGlobal(t) ==
    /\ thr_pc[t] = "global"
    /\ pt_global_adj' = GlobalAdjAfter(pt_history, pt_global_adj)
    /\ thr_pc' = [thr_pc EXCEPT ![t] = "release"]
    /\ UNCHANGED <<pt_history, pt_phase_adj, pt_switched, pt_n, thr_local, thr_lock, thr_ghost>>

\* core.py 197-198: get_adjustment is called and takes the lock
ThrGetEnter(t) ==
    /\ t \in Readers
    /\ thr_pc[t] = "idle"
    /\ PtLockFree(thr_lock)
    /\ \E phase \in PtPhases :
         thr_local' = [thr_local EXCEPT ![t] = [ThrNoLocal EXCEPT !.phase = phase]]
    /\ thr_lock' = t
    /\ thr_pc' = [thr_pc EXCEPT ![t] = "read_phase"]
    /\ UNCHANGED <<ptVars, thr_ghost>>

\* core.py 199: self._phase_adj.get(phase, 1.0)
ThrGetPhase(t) ==
    /\ thr_pc[t] = "read_phase"
    /\ thr_local' = [thr_local EXCEPT ![t].p = pt_phase_adj[thr_local[t].phase]]
    /\ thr_pc' = [thr_pc EXCEPT ![t] = "read_global"]
    /\ UNCHANGED <<ptVars, thr_lock, thr_ghost>>

\* core.py 199: * self._global_adj; expect is what the tracker of the whole
\* record calls so far answers
ThrGetGlobal(t) ==
    /\ thr_pc[t] = "read_global"
    /\ thr_local' = [thr_local EXCEPT
         ![t].result = (thr_local[t].p * pt_global_adj) \div AdjScale,
         ![t].expect = PTGetAdjustment(thr_ghost.atomic, thr_local[t].phase)]
    /\ thr_pc' = [thr_pc EXCEPT ![t] = "release"]
    /\ UNCHANGED <<ptVars, thr_lock, thr_ghost>>

\* the with block is left
ThrRelease(t) ==
    /\ thr_pc[t] = "release"
    /\ thr_lock' = NoThread
    /\ thr_pc' = [thr_pc EXCEPT ![t] = "idle"]
    /\ UNCHANGED <<ptVars, thr_local, thr_ghost>>

ThrOthers == <<fnVars, loopVars, clnVars, pidVars, kalVars, quantVars, dlVars, raVars, cycVars, ctlVars>>

ThrNext ==
    \/ \E t \in Threads : ThrRecordEnter(t) /\ UNCHANGED ThrOthers
    \/ \E t \in Threads : ThrRecordAppend(t) /\ UNCHANGED ThrOthers
    \/ \E t \in Threads : ThrRecordPhases(t) /\ UNCHANGED ThrOthers
    \/ \E t \in Threads : ThrRecordGlobal(t) /\ UNCHANGED ThrOthers
    \/ \E t \in Threads : ThrGetEnter(t) /\ UNCHANGED ThrOthers
    \/ \E t \in Threads : ThrGetPhase(t) /\ UNCHANGED ThrOthers
    \/ \E t \in Threads : ThrGetGlobal(t) /\ UNCHANGED ThrOthers
    \/ \E t \in Threads : ThrRelease(t) /\ UNCHANGED ThrOthers

\* the last n entries of s
LastOf(s, n) == SubSeq(s, Len(s) - n + 1, Len(s))

ThrActive == DOMAIN thr_pc = Threads

\* C25: calls of record and get_adjustment from several threads are
\* serialized by the tracker's lock: the history is the last min(30, n)
\* records, the tracker between calls is the one that n whole record calls
\* give, and a get_adjustment returns the answer of such a tracker.
C25_TrackerCallsSerialized ==
    ThrActive =>
        /\ pt_history = LastOf(thr_ghost.log, IF Len(thr_ghost.log) < PtWindow
                                               THEN Len(thr_ghost.log) ELSE PtWindow)
        /\ Cardinality({t \in Threads : thr_pc[t] # "idle"}) <= 1
        /\ (thr_lock = NoThread) => PT = thr_ghost.atomic
        /\ \A t \in Readers :
             thr_pc[t] = "release" => thr_local[t].result = thr_local[t].expect

\* a read after two concurrent records pushed the first entries out of the
\* window and moved the factors
C25_Witness ==
    /\ ThrActive
    /\ Len(thr_ghost.log) > PtWindow
    /\ \E t \in Readers :
         /\ thr_pc[t] = "release"
         /\ thr_local[t].result # AdjScale
         /\ thr_local[t].result # PTGetAdjustment(PTStreak(29, 2000, "steady"), thr_local[t].phase)
    /\ \E w \in Writers : thr_pc[w] = "idle"

(***************************************************************************)
(* The /pause and /resume commands (telegram.py 280-293) and the run loop  *)
(* over one torrent.  The commands are handled by the poll thread, so one  *)
(* may arrive between two reads of notifier.paused within an iteration.    *)
(***************************************************************************)
MaxPauseTicks == 4
MaxCommands == 2
\* where a command arrives during an iteration: not at all, before the read
\* of _calc_download_limit or before the read of _check_reannounce
PauseArrivals == {"none", "before_dl", "before_ra"}

\* TelegramBot.__init__ (telegram.py 36); reads: what the three reads of the
\* most recent iteration found
PauseInit ==
    /\ fn_in = [fn |-> "remote", paused |-> FALSE, reads |-> <<FALSE, FALSE, FALSE>>]
    /\ fn_out = [commands |-> 0]
    /\ fn_stage = "idle"

\* TelegramBot._cmd_pause between two iterations
CmdPause ==
    /\ fn_in.fn = "remote"
    /\ ~fn_in.paused
    /\ fn_out.commands < MaxCommands
    /\ fn_in' = [fn_in EXCEPT !.paused = TRUE]
    /\ fn_out' = [commands |-> fn_out.commands + 1]
    /\ UNCHANGED fn_stage

\* TelegramBot._cmd_resume between two iterations
CmdResume ==
    /\ fn_in.fn = "remote"
    /\ fn_in.paused
    /\ fn_out.commands < MaxCommands
    /\ fn_in' = [fn_in EXCEPT !.paused = FALSE]
    /\ fn_out' = [commands |-> fn_out.commands + 1]
    /\ UNCHANGED fn_stage

PauseConfig(paused) == [DefaultConfig EXCEPT !.paused = paused]

\* what the three reads find when the flag is p at the start and a command
\* toggles it at the given point
PauseReads(p, arrival) ==
    <<p,
      IF arrival = "before_dl" THEN ~p ELSE p,
      IF arrival = "none" THEN p ELSE ~p>>

\* one iteration of Controller.run, a command possibly arriving during it
PauseTick ==
    /\ fn_in.fn = "remote"
    /\ \E arrival \in PauseArrivals :
         \E reads \in {PauseReads(fn_in.paused, arrival)} :
           /\ TickWith(<<PauseConfig(reads[1]), PauseConfig(reads[2]), PauseConfig(reads[3])>>,
                       WaitInputs, MaxPauseTicks)
           /\ fn_in' = [fn_in EXCEPT !.paused = reads[3], !.reads = reads]
    /\ UNCHANGED <<fn_out, fn_stage>>

PauseNext ==
    \/ PauseTick /\ UNCHANGED <<loopVars, thrVars, clnVars, pidVars, kalVars, quantVars, dlVars, raVars, cycVars>>
    \/ CmdPause /\ UNCHANGED <<loopVars, thrVars, clnVars, pidVars, kalVars, quantVars, ptVars, dlVars, raVars, cycVars, ctlVars>>
    \/ CmdResume /\ UNCHANGED <<loopVars, thrVars, clnVars, pidVars, kalVars, quantVars, ptVars, dlVars, raVars, cycVars, ctlVars>>

\* the limits of the control law: the overspeed brake, the waiting limit, or
\* the result of the pipeline
NormalUpLimits(in_limits) == {MIN_LIMIT, REANNOUNCE_WAIT_LIMIT * 1024} \cup in_limits

\* C29: while limiting is paused by /pause, every processed entity is given
\* the upload limit -1 and the download limit -1, no forced resync is fired
\* and the waiting flag is not set; after /resume the control law applies
\* again.
C29_PausedMeansUnlimited ==
    (fn_in.fn = "remote" /\ obs.op = "tick") =>
        /\ fn_in.reads = <<TRUE, TRUE, TRUE>> =>
             /\ obs.up_limit = -1
             /\ obs.dl[1] = -1
             /\ ~obs.attempted
             /\ ~obs.fired
             /\ states.waiting_reannounce => obs.before.waiting_reannounce
        /\ fn_in.reads = <<FALSE, FALSE, FALSE>> =>
             obs.up_limit \in NormalUpLimits({in.pipeline_limit : in \in WaitInputs})

\* C29 witness: a paused iteration over an entity that was waiting for its
\* resync, which otherwise gets the waiting limit, after a /pause
C29_Witness ==
    /\ fn_in.fn = "remote"
    /\ obs.op = "tick"
    /\ fn_in.reads = <<TRUE, TRUE, TRUE>>
    /\ fn_out.commands >= 1
    /\ obs.before.waiting_reannounce
    /\ states.waiting_reannounce
    /\ obs.up_limit = -1

\* a forced resync fired in an iteration after /pause and /resume
C29_ResumedFires ==
    /\ fn_in.fn = "remote"
    /\ obs.op = "tick"
    /\ fn_in.reads = <<FALSE, FALSE, FALSE>>
    /\ fn_out.commands >= 2
    /\ obs.fired

(***************************************************************************)
(* CleanupModule._auto_cleanup (cleanup.py 430-550): one round of the      *)
(* worker thread, one step per call to the client or to _stop.  The client *)
(* lists the torrents anew in every pass, so a pass may find candidates    *)
(* whatever was deleted before.  Speeds are in KiB/s, free space in GB.    *)
(***************************************************************************)
Slots == {1, 2}
\* cleanup.py 545: loop_guard >= 50
CleanGuard == 50
\* config.py 56-63
CleanRules ==
    [r1 |-> [gb |-> 10, upload_kib |-> 1024],
     r2 |-> [gb |-> 20, upload_kib |-> 512],
     r3 |-> [gb |-> 5, upload_kib |-> 5120]]
\* what _get_free_space_gb answers; the last one stands for float('inf')
\* (cleanup.py 117)
CleanFreeReads == {3, 8, 15, 20, 1000000}

\* the pending queues a round may find
CleanPendings == {{}, {2}}

\* str.lower of the client's state names
CleanLower ==
    [uploading |-> "uploading", stalledUP |-> "stalledup", pausedUP |-> "pausedup",
     queuedUP |-> "queuedup", downloading |-> "downloading", pausedDL |-> "pauseddl"]
\* cleanup.py 61-62
CleanUploadStates == {"seeding", "stalledup", "uploading", "forcedup"}
CleanDownloadStates == {"downloading", "stalleddl", "forceddl", "metadl"}
\* the lower-cased names that contain 'queued' or 'paused'
CleanWaitingNames == {"pausedup", "queuedup", "pauseddl", "queueddl"}

\* the torrents a listing may hold in a slot
CleanDescs ==
    {[state |-> "uploading", up_kib |-> 0, completed |-> TRUE, size |-> 7],
     [state |-> "uploading", up_kib |-> 3000, completed |-> TRUE, size |-> 9],
     [state |-> "stalledUP", up_kib |-> 800, completed |-> FALSE, size |-> 9],
     [state |-> "pausedUP", up_kib |-> 0, completed |-> TRUE, size |-> 9],
     [state |-> "queuedUP", up_kib |-> 0, completed |-> TRUE, size |-> 9],
     [state |-> "downloading", up_kib |-> 0, completed |-> FALSE, size |-> 9]}

\* cleanup.py 162-166: _is_waiting_state
is_waiting_state(state) == CleanLower[state] \in CleanWaitingNames

\* cleanup.py 168-174: _space_target_gb
space_target_gb == Max(CleanRules.r1.gb, Max(CleanRules.r2.gb, CleanRules.r3.gb))

NoHit == [hit |-> FALSE, raised |-> FALSE, pri |-> 99, speed |-> 0]

\* cleanup.py 176-210: _check_upload_space_rules
check_upload_space_rules(d, free_gb) ==
    IF is_waiting_state(d.state) THEN NoHit
    ELSE IF CleanLower[d.state] \notin CleanUploadStates THEN NoHit
    ELSE IF free_gb < CleanRules.r3.gb /\ d.up_kib < CleanRules.r3.upload_kib
    THEN [hit |-> TRUE, raised |-> FALSE, pri |-> 0, speed |-> d.up_kib]
    ELSE IF free_gb < CleanRules.r1.gb /\ d.up_kib < CleanRules.r1.upload_kib
    THEN [hit |-> TRUE, raised |-> FALSE, pri |-> 1, speed |-> d.up_kib]
    ELSE IF free_gb < CleanRules.r2.gb /\ d.completed /\ d.up_kib < CleanRules.r2.upload_kib
    THEN [hit |-> TRUE, raised |-> FALSE, pri |-> 2, speed |-> d.up_kib]
    ELSE [NoHit EXCEPT !.speed = d.up_kib]

\* cleanup.py 212-245: _check_download_space_rules.  Config has no field
\* cleanup_space_rule3_download_kib (config.py 52-63), so line 230 raises
\* AttributeError for a torrent that gets that far
check_download_space_rules(d, free_gb) ==
    IF is_waiting_state(d.state) THEN NoHit
    ELSE IF CleanLower[d.state] \notin CleanDownloadStates THEN NoHit
    ELSE IF d.completed THEN NoHit
    ELSE [NoHit EXCEPT !.raised = TRUE]

NoBest == [slot |-> 0]

\* tuple comparison of (pri, speed_kib, -release_bytes), cleanup.py 496-497
CleanKeyLess(a, b) ==
    \/ a.pri < b.pri
    \/ a.pri = b.pri /\ a.speed < b.speed
    \/ a.pri = b.pri /\ a.speed = b.speed /\ a.size > b.size

\* a mutant of CleanSkip: the protected set is not consulted
CleanSkip_PendingOnly(h, protected, pending) == h \in pending

\* cleanup.py 458-463: protected and pending torrents are passed over
CleanSkip(h, protected, pending) == h \in protected \/ h \in pending

\* cleanup.py 456-511: one pass of the for loop, best so far -> best
CleanConsider(best, h, d, free_gb, protected, pending) ==
    IF CleanSkip(h, protected, pending) THEN best
    ELSE IF is_waiting_state(d.state) THEN best
    ELSE LET u == check_upload_space_rules(d, free_gb)
             w == check_download_space_rules(d, free_gb)
             key == [pri |-> u.pri, speed |-> u.speed, size |-> d.size]
         IN  IF w.raised THEN best
             ELSE IF ~u.hit /\ ~w.hit THEN best
             ELSE IF best = NoBest \/ CleanKeyLess(key, best.key)
             THEN [slot |-> h, desc |-> d, key |-> key]
             ELSE best

RECURSIVE CleanScan(_, _, _, _, _, _)
\* cleanup.py 456-511: the for loop over the listing, from slot h on
CleanScan(best, h, listing, free_gb, protected, pending) ==
    IF h \notin Slots THEN best
    ELSE CleanScan(CleanConsider(best, h, listing[h], free_gb, protected, pending),
                   h + 1, listing, free_gb, protected, pending)

ClnIdle == cln = [pc |-> "idle"]

NoDeletion == [slot |-> 0]

\* the worker enters _auto_cleanup; the protected set and the pending queue
\* are what the task file left (cleanup.py 388-400, 300-324)
CleanInit ==
    \E enabled \in BOOLEAN, reannounce \in BOOLEAN,
       protected \in SUBSET Slots, pending \in CleanPendings :
        cln = [pc |-> "start", reason |-> "", stop |-> FALSE,
               enabled |-> enabled, reannounce |-> reannounce,
               protected |-> protected, pending |-> pending,
               loop_guard |-> 0, free_gb |-> 0, reads |-> 0, best |-> NoBest,
               deleted |-> 0, last |-> NoDeletion, failed |-> FALSE,
               stop_seen |-> FALSE]

CleanDone(c, reason) == [c EXCEPT !.pc = "done", !.reason = reason]

\* cleanup.py 437-443
CleanBegin ==
    /\ cln.pc = "start"
    /\ cln' = IF cln.enabled THEN [cln EXCEPT !.pc = "read"]
              ELSE CleanDone(cln, "disabled")

\* cleanup.py 447-450: the while test and the free space
CleanRead ==
    /\ cln.pc = "read"
    /\ \E free_gb \in CleanFreeReads :
         cln' = IF cln.stop THEN CleanDone([cln EXCEPT !.stop_seen = TRUE], "stopped")
                ELSE IF free_gb >= space_target_gb
                THEN CleanDone([cln EXCEPT !.free_gb = free_gb, !.reads = @ + 1], "enough")
                ELSE [cln EXCEPT !.pc = "list", !.free_gb = free_gb, !.reads = @ + 1]

\* cleanup.py 452-526: torrents_info and the choice of the best candidate
CleanList ==
    /\ cln.pc = "list"
    /\ \E raised \in BOOLEAN, listing \in [Slots -> CleanDescs] :
         \E best \in {CleanScan(NoBest, 1, listing, cln.free_gb, cln.protected, cln.pending)} :
           cln' = IF raised THEN CleanDone(cln, "error")
                  ELSE IF best = NoBest THEN CleanDone(cln, "no_candidate")
                  ELSE [cln EXCEPT !.best = best,
                                   !.pc = IF cln.reannounce THEN "announce" ELSE "delete"]

\* cleanup.py 527-530: _do_reannounce and _stop.wait(cleanup_reannounce_wait)
CleanAnnounceWait ==
    /\ cln.pc = "announce"
    /\ cln' = IF cln.stop THEN CleanDone([cln EXCEPT !.stop_seen = TRUE], "stopped")
              ELSE [cln EXCEPT !.pc = "delete"]

\* cleanup.py 532-538: _execute_delete
CleanDelete ==
    /\ cln.pc = "delete"
    /\ \E ok \in BOOLEAN :
         cln' = IF ok
                THEN [cln EXCEPT !.pc = "recheck", !.deleted = @ + 1,
                        !.last = [slot |-> cln.best.slot, desc |-> cln.best.desc,
                                  free_gb |-> cln.free_gb, reads |-> cln.reads,
                                  after_failure |-> cln.failed,
                                  after_stop |-> cln.stop_seen]]
                ELSE CleanDone([cln EXCEPT !.failed = TRUE], "delete_failed")

\* cleanup.py 540-547: _stop.wait(30) and the guard
CleanRecheck ==
    /\ cln.pc = "recheck"
    /\ cln' = IF cln.stop THEN CleanDone([cln EXCEPT !.stop_seen = TRUE], "stopped")
              ELSE IF cln.loop_guard + 1 >= CleanGuard
              THEN CleanDone([cln EXCEPT !.loop_guard = @ + 1], "guard")
              ELSE [cln EXCEPT !.loop_guard = @ + 1, !.pc = "read"]

\* CleanupModule.stop in the main thread (cleanup.py 75-78): _stop.set()
CleanStop ==
    /\ cln.pc \in {"read", "list", "announce", "delete", "recheck"}
    /\ ~cln.stop
    /\ cln' = [cln EXCEPT !.stop = TRUE]

CleanOthers == <<fnVars, loopVars, thrVars, pidVars, kalVars, quantVars, ptVars, dlVars, raVars, cycVars, ctlVars>>

CleanNext ==
    \/ CleanBegin /\ UNCHANGED CleanOthers
    \/ CleanRead /\ UNCHANGED CleanOthers
    \/ CleanList /\ UNCHANGED CleanOthers
    \/ CleanAnnounceWait /\ UNCHANGED CleanOthers
    \/ CleanDelete /\ UNCHANGED CleanOthers
    \/ CleanRecheck /\ UNCHANGED CleanOthers
    \/ CleanStop /\ UNCHANGED CleanOthers

CleanActive == cln.pc # "idle"

\* C30: automatic cleanup never deletes a torrent whose state is queued or
\* paused, whose hash is protected, or that is pending deletion; within one
\* round torrents are deleted one at a time, the free space being read again
\* before each deletion; the round stops as soon as the free space reaches
\* the target, no candidate remains, a delete fails or a stop is seen; and
\* a round deletes at most 50 torrents.
C30_CleanupIsSafe ==
    CleanActive =>
        /\ cln.deleted > 0 =>
             /\ ~is_waiting_state(cln.last.desc.state)
             /\ CleanLower[cln.last.desc.state] \notin CleanWaitingNames
             /\ cln.last.slot \notin cln.protected
             /\ cln.last.slot \notin cln.pending
             /\ cln.last.free_gb < space_target_gb
             /\ cln.last.reads = cln.deleted
             /\ ~cln.last.after_failure
             /\ ~cln.last.after_stop
        /\ cln.deleted <= CleanGuard
        /\ cln.deleted <= cln.reads
        /\ cln.pc \in {"list", "announce", "delete"} =>
             /\ cln.free_gb < space_target_gb
             /\ ~cln.failed
             /\ ~cln.stop_seen
        /\ cln.pc \in {"announce", "delete"} => cln.best # NoBest
        /\ (cln.failed \/ cln.stop_seen) => cln.pc = "done"
        /\ (cln.pc = "done" /\ cln.reason = "enough") => cln.free_gb >= space_target_gb

\* C30 witness: a round that deleted fifty torrents, one per pass, while a
\* torrent was protected, and was ended by the guard
C30_Witness ==
    /\ CleanActive
    /\ cln.pc = "done"
    /\ cln.reason = "guard"
    /\ cln.deleted = CleanGuard
    /\ cln.protected # {}
    /\ cln.last.reads = CleanGuard

(***************************************************************************)
(* SubscriptionModule (subscription.py): the worker thread, which takes    *)
(* items from the RSS feed and from the task file, and a thread calling    *)
(* add_torrent_manual.  Each takes the module's lock around the test of    *)
(* _processed_hashes, _add_torrent and the recording of the hash.          *)
(***************************************************************************)
MaxSubAdds == 4
SubUrls == {"u1", "u2"}
SubThreads == {"worker", "manual"}
\* hashlib.md5(url.encode()).hexdigest()
SubMd5 == [u1 |-> "md5-1", u2 |-> "md5-2"]
\* where the item of the worker comes from
SubSources == [worker |-> {"RSS", "task_file"}, manual |-> {"manual"}]
\* what _add_torrent meets: torrents_add raises; torrents_add succeeds and
\* add_subscription_history or the notification raises (subscription.py
\* 287-302, inside the try of 240); nothing raises
SubOutcomes == {"add_raises", "record_raises", "ok"}


\* SubscriptionModule.__init__ with an empty subscription_history
SubInit ==
    /\ fn_in = [fn |-> "subscription", adds |-> 0]
    /\ fn_out = [processed |-> {}, history |-> {}]
    /\ fn_stage = "idle"
    /\ thr_pc = [t \in SubThreads |-> "idle"]
    /\ thr_local = [t \in SubThreads |-> [url |-> "u1", source |-> "", returned |-> FALSE]]
    /\ thr_lock = NoThread
    /\ thr_ghost = [submitted |-> [u \in SubUrls |-> 0],
                    failed_recorded |-> FALSE]

\* subscription.py 154, 205, 313: with self._lock, for one item
SubEnter(t) ==
    /\ fn_in.fn = "subscription"
    /\ thr_pc[t] = "idle"
    /\ fn_in.adds < MaxSubAdds
    /\ thr_lock = NoThread
    /\ \E u \in SubUrls, src \in SubSources[t] :
         thr_local' = [thr_local EXCEPT ![t] = [url |-> u, source |-> src, returned |-> FALSE]]
    /\ thr_lock' = t
    /\ thr_pc' = [thr_pc EXCEPT ![t] = "check"]
    /\ fn_in' = [fn_in EXCEPT !.adds = @ + 1]
    /\ UNCHANGED <<fn_out, fn_stage, thr_ghost>>

\* subscription.py 155-156, 206-207, 314-315: the URL was processed already
SubCheck(t) ==
    /\ fn_in.fn = "subscription"
    /\ thr_pc[t] = "check"
    /\ IF SubMd5[thr_local[t].url] \in fn_out.processed
       THEN /\ thr_pc' = [thr_pc EXCEPT ![t] = "idle"]
            /\ thr_lock' = NoThread
       ELSE /\ thr_pc' = [thr_pc EXCEPT ![t] = "add"]
            /\ UNCHANGED thr_lock
    /\ UNCHANGED <<fnVars, thr_local, thr_ghost>>

\* _add_torrent (subscription.py 234-309): [returned, submitted, history]
add_torrent(url, outcome, history) ==
    IF outcome = "add_raises"
    THEN [returned |-> FALSE, submitted |-> FALSE, history |-> history]
    ELSE IF outcome = "record_raises"
    THEN [returned |-> FALSE, submitted |-> TRUE, history |-> history]
    ELSE [returned |-> TRUE, submitted |-> TRUE, history |-> history \cup {SubMd5[url]}]

\* subscription.py 159-161, 209-216, 317-320: _add_torrent, the recording of
\* the hash when it returned True, and the end of the with block
SubAdd(t) ==
    /\ fn_in.fn = "subscription"
    /\ thr_pc[t] = "add"
    /\ \E outcome \in SubOutcomes :
         \E r \in {add_torrent(thr_local[t].url, outcome, fn_out.history)} :
           /\ fn_out' = [processed |-> IF r.returned
                                       THEN fn_out.processed \cup {SubMd5[thr_local[t].url]}
                                       ELSE fn_out.processed,
                         history |-> r.history]
           /\ thr_ghost' = [submitted |->
                              [thr_ghost.submitted EXCEPT ![thr_local[t].url] =
                                 IF r.submitted THEN @ + 1 ELSE @],
                            failed_recorded |->
                              thr_ghost.failed_recorded
                              \/ (~r.submitted /\ SubMd5[thr_local[t].url] \in fn_out'.processed)]
           /\ thr_local' = [thr_local EXCEPT ![t].returned = r.returned]
    /\ thr_pc' = [thr_pc EXCEPT ![t] = "idle"]
    /\ thr_lock' = NoThread
    /\ UNCHANGED <<fn_in, fn_stage>>

SubOthers == <<loopVars, clnVars, pidVars, kalVars, quantVars, ptVars, dlVars, raVars, cycVars, ctlVars>>

SubNext ==
    \/ \E t \in SubThreads : SubEnter(t) /\ UNCHANGED SubOthers
    \/ \E t \in SubThreads : SubCheck(t) /\ UNCHANGED SubOthers
    \/ \E t \in SubThreads : SubAdd(t) /\ UNCHANGED SubOthers

\* C31: a given torrent URL is successfully submitted to the backend at most
\* once by the subscription module, across RSS polling, task-file processing
\* and manual adds and under any interleaving; a URL whose add failed is not
\* recorded as processed.
C31_SubmittedAtMostOnce ==
    (fn_in.fn = "subscription") =>
        /\ \A u \in SubUrls : thr_ghost.submitted[u] <= 1
        /\ ~thr_ghost.failed_recorded

(***************************************************************************)
(* The limits the client enforces.  Controller.run sends the limits that   *)
(* _process queued (main.py 676-686) and _shutdown restores them (main.py  *)
(* 172-180); a call may raise.  One torrent, so Controller.modified_up and *)
(* modified_dl are the flags 'the hash is in the set'.                     *)
(***************************************************************************)
MaxBackTicks == 4
BackStart ==
    [now |-> 1000000, uploaded |-> 5000, completed |-> 1000,
     next_ann |-> 1000025, added_on |-> 998800]
\* ten seconds over or under the ceiling, downloading fast or slowly
BackInputs ==
    [dt : {10}, up_rate : {0, 60}, dl_rate : {1, 90}, fetch_ok : {TRUE},
     ra_ok : {TRUE}, pipeline_limit : {8192}]
NoRequest == [none |-> TRUE]
NoFlush == [up |-> FALSE, dl |-> FALSE]

\* Controller.__init__ (main.py 98-99) and a client that limits nothing;
\* up_request, dl_request: what the last iteration sent; up_owed, dl_owed:
\* a request of an earlier iteration raised
BackInit ==
    /\ fn_in = [fn |-> "backend", up_before |-> -1, dl_before |-> -1,
                up_owed |-> FALSE, dl_owed |-> FALSE, flush |-> NoFlush]
    /\ fn_out = [up_limit |-> -1, dl_limit |-> -1,
                 modified_up |-> FALSE, modified_dl |-> FALSE,
                 up_request |-> NoRequest, dl_request |-> NoRequest,
                 up_failed |-> FALSE, dl_failed |-> FALSE, failures |-> 0]
    /\ fn_stage = "running"

BackCtlInit ==
    /\ clock = BackStart.now
    /\ states = NoState
    /\ ctl = [last_config_check |-> BackStart.now, last_db_save |-> BackStart.now]
    /\ stats = StatsNew(BackStart.now)
    /\ db = [row |-> NoRow, stats |-> NoRow]
    /\ env = [uploaded |-> BackStart.uploaded, completed |-> BackStart.completed,
              next_ann |-> BackStart.next_ann, anns |-> 0,
              added_on |-> BackStart.added_on]
    /\ obs = NoObs("init")
    /\ ticks = 0
    /\ restarts = 0

\* main.py 553: getattr(torrent, 'up_limit', -1) or -1
current_up_limit(up_limit) == IF up_limit = 0 THEN -1 ELSE up_limit

\* main.py 623: the key of dl_actions, in B/s
DlActionKey(dl_limit) == IF dl_limit > 0 THEN dl_limit * 1024 ELSE -1

\* what the iteration o, with the apply calls ending as up_ok and dl_ok,
\* makes of the client's limits and of the modified sets b
BackApply(b, o, up_ok, dl_ok) ==
    LET up_act == o.up_limit # current_up_limit(b.up_limit)
        dl_act == o.dl_action
    IN  [up_limit |-> IF up_act /\ up_ok THEN o.up_limit ELSE b.up_limit,
         dl_limit |-> IF dl_act /\ dl_ok THEN DlActionKey(o.dl[1]) ELSE b.dl_limit,
         modified_up |-> b.modified_up \/ up_act,
         modified_dl |-> b.modified_dl \/ dl_act,
         up_request |-> IF up_act THEN o.up_limit ELSE NoRequest,
         dl_request |-> IF dl_act THEN DlActionKey(o.dl[1]) ELSE NoRequest,
         up_failed |-> up_act /\ ~up_ok,
         dl_failed |-> dl_act /\ ~dl_ok,
         failures |-> IF (up_act /\ ~up_ok) \/ (dl_act /\ ~dl_ok)
                      THEN 1 ELSE b.failures]

\* one iteration of Controller.run over the active torrent: _process, then
\* the two loops over up_actions and dl_actions
BackTick ==
    /\ fn_in.fn = "backend"
    /\ fn_stage = "running"
    /\ TickWithin(BackInputs, MaxBackTicks)
    /\ \E up_ok \in BOOLEAN, dl_ok \in BOOLEAN :
         fn_out' = BackApply(fn_out, obs', up_ok, dl_ok)
    /\ fn_in' = [fn_in EXCEPT !.up_before = fn_out.up_limit,
                              !.dl_before = fn_out.dl_limit,
                              !.up_owed = fn_out.up_failed,
                              !.dl_owed = fn_out.dl_failed]
    /\ UNCHANGED fn_stage

\* one iteration in which the torrent is not active: its object is deleted
\* (main.py 688-691), the client keeps its limits
BackGone ==
    /\ fn_in.fn = "backend"
    /\ fn_stage = "running"
    /\ TickInactiveWithin(MaxBackTicks)
    /\ fn_out' = [fn_out EXCEPT !.up_request = NoRequest, !.dl_request = NoRequest,
                                !.up_failed = FALSE, !.dl_failed = FALSE]
    /\ fn_in' = [fn_in EXCEPT !.up_before = fn_out.up_limit,
                              !.dl_before = fn_out.dl_limit,
                              !.up_owed = FALSE, !.dl_owed = FALSE]
    /\ UNCHANGED fn_stage

\* Controller._shutdown between two iterations: the state is saved, then one
\* try holds both restoring calls (main.py 173-180), then sys.exit(0)
shutdown(b, up_ok, dl_ok) ==
    LET dl_reached == b.modified_dl /\ (b.modified_up => up_ok)
    IN  [flush |-> [up |-> b.modified_up, dl |-> dl_reached],
         up_limit |-> IF b.modified_up /\ up_ok THEN -1 ELSE b.up_limit,
         dl_limit |-> IF dl_reached /\ dl_ok THEN -1 ELSE b.dl_limit]

BackShutdown ==
    /\ fn_in.fn = "backend"
    /\ fn_stage = "running"
    /\ \E up_ok \in BOOLEAN, dl_ok \in BOOLEAN :
         \E s \in {shutdown(fn_out, up_ok, dl_ok)} :
           /\ fn_in' = [fn_in EXCEPT !.flush = s.flush,
                                     !.up_before = fn_out.up_limit,
                                     !.dl_before = fn_out.dl_limit]
           /\ fn_out' = [fn_out EXCEPT !.up_limit = s.up_limit,
                                       !.dl_limit = s.dl_limit,
                                       !.up_failed = s.flush.up /\ ~up_ok,
                                       !.dl_failed = s.flush.dl /\ ~dl_ok]
    /\ db' = save_all_to_db(db, states, stats, env.anns)
    /\ obs' = NoObs("shutdown")
    /\ fn_stage' = "exited"
    /\ UNCHANGED <<clock, states, ctl, stats, env, ticks, restarts, ptVars>>

BackNext ==
    \/ BackTick /\ UNCHANGED <<loopVars, thrVars, clnVars, pidVars, kalVars, quantVars, dlVars, raVars, cycVars>>
    \/ BackGone /\ UNCHANGED <<loopVars, thrVars, clnVars, pidVars, kalVars, quantVars, dlVars, raVars, cycVars>>
    \/ BackShutdown /\ UNCHANGED <<loopVars, thrVars, clnVars, pidVars, kalVars, quantVars, dlVars, raVars, cycVars>>

\* C32: after every tick whose apply calls all succeed, an entity whose
\* last_dl_limit is unrestricted (<= 0) has no download limit of this
\* controller in force at the backend; in particular a limit imposed in one
\* cycle is not in force after the rollover that reset last_dl_limit.
C32_RecordedDlLimitIsEnforced ==
    (fn_in.fn = "backend" /\ obs.op = "tick" /\ fn_out.failures = 0
        /\ states.last_dl_limit <= 0)
    => fn_out.dl_limit = -1

\* C33: when the apply call for a computed limit failed in a tick, a later
\* tick requests the limit it computes as long as that limit differs from the
\* one the backend enforces, for upload and for download limits; and a failed
\* download-limit apply does not leave last_dl_limit recording a limit that
\* was never applied.
C33_FailedApplyIsRetried ==
    (fn_in.fn = "backend" /\ obs.op = "tick") =>
        /\ (fn_in.up_owed /\ obs.up_limit # current_up_limit(fn_in.up_before))
               => fn_out.up_request = obs.up_limit
        /\ (fn_in.dl_owed /\ DlActionKey(obs.dl[1]) # fn_in.dl_before)
               => fn_out.dl_request = DlActionKey(obs.dl[1])
        /\ fn_out.dl_failed => DlActionKey(states.last_dl_limit) = fn_out.dl_limit

\* the upload half of C33 alone
C33_UploadRetried ==
    (fn_in.fn = "backend" /\ obs.op = "tick"
        /\ fn_in.up_owed /\ obs.up_limit # current_up_limit(fn_in.up_before))
    => fn_out.up_request = obs.up_limit

\* the retry half of C33 for downloads alone
C33_DownloadRetried ==
    (fn_in.fn = "backend" /\ obs.op = "tick"
        /\ fn_in.dl_owed /\ DlActionKey(obs.dl[1]) # fn_in.dl_before)
    => fn_out.dl_request = DlActionKey(obs.dl[1])

\* C39: at shutdown the final flush requests an unrestricted upload limit for
\* every entity whose upload limit this process changed and an unrestricted
\* download limit for every entity whose download limit it changed, entities
\* whose object was destroyed included; the flush is attempted once, and a
\* failure is not retried and does not prevent the exit.
C39_ShutdownFlushesBoth ==
    (fn_in.fn = "backend" /\ fn_stage = "exited") =>
        /\ fn_in.flush.up = fn_out.modified_up
        /\ fn_in.flush.dl = fn_out.modified_dl

\* the upload half of C39 alone
C39_UploadFlushRequested ==
    (fn_in.fn = "backend" /\ fn_stage = "exited") =>
        fn_in.flush.up = fn_out.modified_up

\* the download half of C39 when the upload request did not raise
C39_DownloadFlushAfterUpload ==
    (fn_in.fn = "backend" /\ fn_stage = "exited" /\ ~fn_out.up_failed) =>
        fn_in.flush.dl = fn_out.modified_dl
(***************************************************************************)
(* Controller._calc_upload_limit (main.py 350-398) with the limit          *)
(* controller of the entity: the pause, the overspeed brake, the limit of  *)
(* an entity waiting for its re-announce, and the pipeline with the        *)
(* physical cap and the progress protection.  Speeds and limits are in     *)
(* B/s, uploads in bytes.                                                  *)
(***************************************************************************)
MaxUpCalls == 2
UpStart == [now |-> 1000, cycle_start |-> 980]
UpTargets == {1000}
\* nothing, a cycle near its target, and a session average of about 60 MiB/s
UpUploadeds == {0, 30000, 1300000000}
UpSpeeds == {0, 3000}
UpTls == {10, 600}
\* Config.max_physical_bytes: not configured, 2 KiB/s or 2048 KiB/s
UpMaxPhys == {0, 2048, 2048 * 1024}
\* utils.py 70 and main.py 364: SPEED_LIMIT * 1.05 for SPEED_LIMIT =
\* 50 * 1024 * 1024 B/s; utils.py 34-36: PROGRESS_PROTECT 0.90,
\* SPEED_PROTECT_RATIO 2.5, SPEED_PROTECT_LIMIT 1.3
UpProtect ==
    [brake |-> 55050240, progress_pct |-> 90, ratio_x10 |-> 25, limit_x10 |-> 13]

\* main.py 385-390: the physical cap
PhysicalCap(limit, max_phy) ==
    IF max_phy > 0
    THEN (IF limit = -1 THEN max_phy ELSE IF limit > max_phy THEN max_phy ELSE limit)
    ELSE limit

\* main.py 392-397: the progress protection, [limit, protected]
ProgressProtect(limit, uploaded, target, total, current) ==
    LET protect == (UpProtect.limit_x10 * target) \div 10
        progressed == target * total > 0
                      /\ 100 * uploaded >= UpProtect.progress_pct * target * total
    IN  IF progressed /\ 10 * current > UpProtect.ratio_x10 * target
           /\ (limit = -1 \/ limit > protect)
        THEN [limit |-> protect, protected |-> TRUE]
        ELSE [limit |-> limit, protected |-> FALSE]

\* main.py 372-398: the pipeline of an entity that is neither braked nor
\* waiting
UploadPipeline(cfg, e, lc, pt, torrent, now, tl) ==
    Bind(uploaded_in_cycle(e, torrent.uploaded), LAMBDA uploaded :
    Bind(state_get_phase(e, now), LAMBDA phase :
    Bind(calculate(lc, cfg.target, uploaded, tl, elapsed(e, now), phase,
                   now * CsPerSec, PTGetAdjustment(pt, phase)), LAMBDA c :
    Bind(ProgressProtect(PhysicalCap(c.limit, cfg.max_phy), uploaded, cfg.target,
                         estimate_total(e, now, tl), torrent.upspeed), LAMBDA p :
        [limit |-> p.limit, branch |-> "pipeline", lc |-> c.lc,
         protected |-> p.protected]))))

\* a mutant of CalcUploadLimit: the pipeline runs before the waiting flag is
\* looked at
CalcUploadLimit_PipelineFirst(cfg, e, lc, pt, torrent, now, tl) ==
    IF cfg.paused
    THEN [limit |-> -1, branch |-> "paused", lc |-> lc, protected |-> FALSE]
    ELSE Bind(record_speed(lc, now * CsPerSec, torrent.upspeed), LAMBDA lc1 :
         Bind(get_real_avg_speed(e, torrent.uploaded, now), LAMBDA real :
             IF real[1] > UpProtect.brake * real[2]
             THEN [limit |-> MIN_LIMIT, branch |-> "brake", lc |-> lc1,
                   protected |-> FALSE]
             ELSE Bind(UploadPipeline(cfg, e, lc1, pt, torrent, now, tl), LAMBDA p :
                      IF e.waiting_reannounce
                      THEN [p EXCEPT !.limit = REANNOUNCE_WAIT_LIMIT * 1024,
                                     !.branch = "waiting", !.protected = FALSE]
                      ELSE p)))

\* Controller._calc_upload_limit: the limit, the branch that decided it and
\* the limit controller it leaves
CalcUploadLimit(cfg, e, lc, pt, torrent, now, tl) ==
    IF cfg.paused
    THEN [limit |-> -1, branch |-> "paused", lc |-> lc, protected |-> FALSE]
    ELSE Bind(record_speed(lc, now * CsPerSec, torrent.upspeed), LAMBDA lc1 :
         Bind(get_real_avg_speed(e, torrent.uploaded, now), LAMBDA real :
             IF real[1] > UpProtect.brake * real[2]
             THEN [limit |-> MIN_LIMIT, branch |-> "brake", lc |-> lc1,
                   protected |-> FALSE]
             ELSE IF e.waiting_reannounce
             THEN [limit |-> REANNOUNCE_WAIT_LIMIT * 1024, branch |-> "waiting",
                   lc |-> lc1, protected |-> FALSE]
             ELSE UploadPipeline(cfg, e, lc1, pt, torrent, now, tl)))

UpInputs ==
    [paused : BOOLEAN, waiting : BOOLEAN, synced : BOOLEAN, max_phy : UpMaxPhys,
     target : UpTargets, uploaded : UpUploadeds, upspeed : UpSpeeds, tl : UpTls]

\* the entity of a call: its cycle and its session began at UpStart.cycle_start
\* with nothing uploaded, and _process has just cached tl (main.py 547-549)
UpEntity(in, now) ==
    [TorrentStateNew EXCEPT
      !.cycle_start = UpStart.cycle_start,
      !.session_start_time = UpStart.cycle_start,
      !.cycle_synced = in.synced,
      !.waiting_reannounce = in.waiting,
      !.cached_tl = in.tl,
      !.cache_ts = now]

\* the session average of the entity of a call is over SPEED_LIMIT * 1.05
UpOverspeed(in, now) ==
    in.uploaded > UpProtect.brake * (now - UpStart.cycle_start)

NoUpInput ==
    [paused |-> FALSE, waiting |-> FALSE, synced |-> FALSE, max_phy |-> 0,
     target |-> 0, uploaded |-> 0, upspeed |-> 0, tl |-> 0]

UpInit ==
    /\ fn_in = [fn |-> "upload_limit", now |-> UpStart.now, in |-> NoUpInput,
                lc |-> LimitControllerNew]
    /\ fn_out = [limit |-> -1, branch |-> "none", lc |-> LimitControllerNew,
                 protected |-> FALSE, n |-> 0]
    /\ fn_stage = "input"

\* one tick's call; fn_in.lc is the limit controller the call found
UpCall ==
    /\ fn_in.fn = "upload_limit"
    /\ fn_out.n < MaxUpCalls
    /\ \E in \in UpInputs :
         \E t \in {fn_in.now + 1} :
         \E r \in {CalcUploadLimit([paused |-> in.paused, target |-> in.target,
                                     max_phy |-> in.max_phy],
                                    UpEntity(in, t), fn_out.lc, PTNew,
                                    [uploaded |-> in.uploaded, upspeed |-> in.upspeed],
                                    t, in.tl)} :
             /\ fn_in' = [fn |-> "upload_limit", now |-> t, in |-> in, lc |-> fn_out.lc]
             /\ fn_out' = [limit |-> r.limit, branch |-> r.branch, lc |-> r.lc,
                           protected |-> r.protected, n |-> fn_out.n + 1]
    /\ fn_stage' = "done"

UpNext ==
    \/ UpCall /\ UNCHANGED <<loopVars, thrVars, clnVars, pidVars, kalVars, quantVars, ptVars, dlVars, raVars, cycVars, ctlVars>>

\* the branch the precedence of C37 gives the call
UpExpectedBranch ==
    IF fn_in.in.paused THEN "paused"
    ELSE IF UpOverspeed(fn_in.in, fn_in.now) THEN "brake"
    ELSE IF fn_in.in.waiting THEN "waiting"
    ELSE "pipeline"

\* C37: the upload limit is decided in a fixed order: paused gives -1;
\* otherwise a session average over 1.05 x SPEED_LIMIT gives MIN_LIMIT;
\* otherwise a set waiting flag gives REANNOUNCE_WAIT_LIMIT KiB/s; only
\* otherwise does the pipeline run.  In the first three cases the PID state
\* and the smoothing state of the entity are as the tick found them, and the
\* precision tracker is untouched.
C37_UploadLimitPrecedence ==
    (fn_in.fn = "upload_limit" /\ fn_stage = "done") =>
        /\ fn_out.branch = UpExpectedBranch
        /\ fn_out.branch = "paused" => fn_out.limit = -1
        /\ fn_out.branch = "brake" => fn_out.limit = MIN_LIMIT
        /\ fn_out.branch = "waiting" => fn_out.limit = REANNOUNCE_WAIT_LIMIT * 1024
        /\ fn_out.branch # "pipeline" =>
             /\ fn_out.lc.pid = fn_in.lc.pid
             /\ fn_out.lc.smooth_limit = fn_in.lc.smooth_limit
             /\ PT = PTNew

\* C37 witness: a tick of a waiting entity after a tick in which the
\* pipeline ran: the PID and the smoothing state it left are kept
C37_Witness ==
    /\ fn_in.fn = "upload_limit"
    /\ fn_out.n = MaxUpCalls
    /\ fn_out.branch = "waiting"
    /\ fn_in.lc.pid.initialized
    /\ fn_in.lc.smooth_limit > 0
    /\ fn_out.lc.pid = fn_in.lc.pid
    /\ fn_out.lc.kalman # fn_in.lc.kalman

\* C38: with a physical maximum configured (max_physical_bytes > 0) and
\* limiting not paused, the upload limit decided is never unrestricted and
\* never above max_physical_bytes, whichever branch decides it.
C38_PhysicalCapEverywhere ==
    (fn_in.fn = "upload_limit" /\ fn_stage = "done"
        /\ ~fn_in.in.paused /\ fn_in.in.max_phy > 0)
    => (fn_out.limit # -1 /\ fn_out.limit <= fn_in.in.max_phy)

\* the pipeline branch of C38 alone
C38_PipelineCapped ==
    (fn_in.fn = "upload_limit" /\ fn_stage = "done" /\ fn_out.branch = "pipeline"
        /\ fn_in.in.max_phy > 0)
    => (fn_out.limit # -1 /\ fn_out.limit <= fn_in.in.max_phy)
(***************************************************************************)
(* TelegramBot._poll_worker and _handle_command (telegram.py 132-206): the *)
(* updates of getUpdates are taken one by one; a command is handled when   *)
(* it comes from the configured chat.                                      *)
(***************************************************************************)
MaxTgUpdates == 3
\* the chat id as configured, before str(chat_id).strip() (telegram.py 25)
TgConfigured == {"100", " 100 "}
\* message.chat.id of an update; NoChat.id: the message has no chat
NoChat == [id |-> 0]
TgChats == {NoChat.id, 100, 200}
TgTexts ==
    {"", "hello", " /pause ", "/PAUSE", "/resume", "/limit 100M", "/limit abc",
     "/bogus"}

\* str.strip() on the strings drawn
PyStrip(s) ==
    IF s = " 100 " THEN "100" ELSE IF s = " /pause " THEN "/pause" ELSE s

\* telegram.py 162: str((msg.get('chat') or {}).get('id', ''))
TgChatId(chat) ==
    IF chat = NoChat.id THEN ""
    ELSE IF chat = 100 THEN "100"
    ELSE IF chat = 200 THEN "200"
    ELSE "other"

\* text.startswith('/') on the stripped texts drawn
StartsWithSlash(text) ==
    text \in {"/pause", "/PAUSE", "/resume", "/limit 100M", "/limit abc", "/bogus"}

\* telegram.py 182-184: parts = text.split(maxsplit=1), cmd = parts[0].lower()
TgSplit(text) ==
    IF text \in {"/pause", "/PAUSE"} THEN [cmd |-> "/pause", args |-> ""]
    ELSE IF text = "/limit 100M" THEN [cmd |-> "/limit", args |-> "100M"]
    ELSE IF text = "/limit abc" THEN [cmd |-> "/limit", args |-> "abc"]
    ELSE [cmd |-> text, args |-> ""]

\* utils.parse_speed_str on the arguments drawn, in KiB/s; 0: None
parse_speed_str(s) == IF s = "100M" THEN 100 * 1024 ELSE 0

\* TelegramBot.__init__ (telegram.py 25, 36-37); temp_target_kib 0: None
TgBot(configured) ==
    [chat_id |-> PyStrip(configured), paused |-> FALSE, temp_target_kib |-> 0,
     last_update_id |-> 0]

\* TelegramBot._handle_command with the handlers that write state
\* (_cmd_pause, _cmd_resume, _cmd_limit); the others only send messages
handle_command(bot, text) ==
    LET p == TgSplit(text)
    IN  IF p.cmd = "/pause" THEN [bot EXCEPT !.paused = TRUE]
        ELSE IF p.cmd = "/resume" THEN [bot EXCEPT !.paused = FALSE]
        ELSE IF p.cmd = "/limit" /\ p.args # "" /\ parse_speed_str(p.args) > 0
        THEN [bot EXCEPT !.temp_target_kib = parse_speed_str(p.args)]
        ELSE bot

\* a mutant of TgAuthorized: every chat is accepted
TgAuthorized_Anyone(chat_id, configured_id) == TRUE

\* telegram.py 170: chat_id == self.chat_id
TgAuthorized(chat_id, configured_id) == chat_id = configured_id

\* telegram.py 158-173: one update of the result of getUpdates,
\* [bot, dispatched]
poll_update(bot, update) ==
    LET text == PyStrip(update.text)
        chat_id == TgChatId(update.chat)
        seen == [bot EXCEPT !.last_update_id = update.update_id]
    IN  IF text = "" THEN [bot |-> seen, dispatched |-> FALSE]
        ELSE IF TgAuthorized(chat_id, bot.chat_id) /\ StartsWithSlash(text)
        THEN [bot |-> handle_command(seen, text), dispatched |-> TRUE]
        ELSE [bot |-> seen, dispatched |-> FALSE]

NoUpdate == [update_id |-> 0, chat |-> NoChat.id, text |-> ""]

\* shadow: the bot that received only the updates of the configured chat
TgInit ==
    /\ \E configured \in TgConfigured :
         /\ fn_in = [fn |-> "telegram", configured |-> configured,
                     update |-> NoUpdate, shadow |-> TgBot(configured)]
         /\ fn_out = [bot |-> TgBot(configured), dispatched |-> FALSE, foreign |-> 0]
    /\ fn_stage = "polling"

\* the update is a message of the chat the configuration names
TgOwn(update, configured) ==
    update.chat # NoChat.id /\ TgChatId(update.chat) = PyStrip(configured)

\* the poll thread takes the next update
TgPoll ==
    /\ fn_in.fn = "telegram"
    /\ fn_out.bot.last_update_id < MaxTgUpdates
    /\ \E chat \in TgChats, text \in TgTexts :
         \E u \in {[update_id |-> fn_out.bot.last_update_id + 1, chat |-> chat,
                    text |-> text]} :
         \E r \in {poll_update(fn_out.bot, u)} :
           /\ fn_out' = [bot |-> r.bot, dispatched |-> r.dispatched,
                         foreign |-> IF TgOwn(u, fn_in.configured) THEN fn_out.foreign
                                     ELSE fn_out.foreign + 1]
           /\ fn_in' = [fn_in EXCEPT
                          !.update = u,
                          !.shadow = IF TgOwn(u, fn_in.configured)
                                     THEN poll_update(@, u).bot ELSE @]
    /\ UNCHANGED fn_stage

TgNext ==
    \/ TgPoll /\ UNCHANGED <<loopVars, thrVars, clnVars, pidVars, kalVars, quantVars, ptVars, dlVars, raVars, cycVars, ctlVars>>

\* C40: a command is dispatched to a handler only if the chat id of its
\* update equals the configured chat id; whatever updates other chats send,
\* the paused flag and the temporary target are those that the updates of
\* the configured chat alone would have produced.
C40_OnlyConfiguredChatCommands ==
    (fn_in.fn = "telegram") =>
        /\ fn_out.dispatched => TgOwn(fn_in.update, fn_in.configured)
        /\ fn_out.bot.paused = fn_in.shadow.paused
        /\ fn_out.bot.temp_target_kib = fn_in.shadow.temp_target_kib

\* C40 witness: after commands of the configured chat set a temporary target
\* and left limiting running, /pause arrives from another chat and is not
\* dispatched
C40_Witness ==
    /\ fn_in.fn = "telegram"
    /\ fn_in.update.chat = 200
    /\ PyStrip(fn_in.update.text) = "/pause"
    /\ ~fn_out.dispatched
    /\ ~fn_out.bot.paused
    /\ fn_out.bot.temp_target_kib > 0
    /\ fn_out.foreign > 0
Init ==
    /\ PidInit
    /\ KalInit
    /\ QuantIdle
    /\ PtInit
    /\ DlIdle
    /\ RaIdle
    /\ CycIdle
    /\ CtlIdle
    /\ FnIdle
    /\ LoopIdle
    /\ ThrIdle
    /\ ClnIdle

InitQuant ==
    /\ PidInit
    /\ KalInit
    /\ QuantInit
    /\ PtInit
    /\ DlIdle
    /\ RaIdle
    /\ CycIdle
    /\ CtlIdle
    /\ FnIdle
    /\ LoopIdle
    /\ ThrIdle
    /\ ClnIdle

InitDL ==
    /\ PidInit
    /\ KalInit
    /\ QuantIdle
    /\ PtInit
    /\ DlInit
    /\ RaIdle
    /\ CycIdle
    /\ CtlIdle
    /\ FnIdle
    /\ LoopIdle
    /\ ThrIdle
    /\ ClnIdle

InitReannounce ==
    /\ PidInit
    /\ KalInit
    /\ QuantIdle
    /\ PtInit
    /\ DlIdle
    /\ RaInit
    /\ CycIdle
    /\ CtlIdle
    /\ FnIdle
    /\ LoopIdle
    /\ ThrIdle
    /\ ClnIdle

InitCycle ==
    /\ PidInit
    /\ KalInit
    /\ QuantIdle
    /\ PtInit
    /\ DlIdle
    /\ RaIdle
    /\ CycInit
    /\ CtlIdle
    /\ FnIdle
    /\ LoopIdle
    /\ ThrIdle
    /\ ClnIdle

InitEstimation ==
    /\ PidInit
    /\ KalInit
    /\ QuantIdle
    /\ PtInit
    /\ DlIdle
    /\ RaIdle
    /\ EstInit
    /\ CtlIdle
    /\ FnIdle
    /\ LoopIdle
    /\ ThrIdle
    /\ ClnIdle

InitEstimate ==
    /\ PidInit
    /\ KalInit
    /\ QuantIdle
    /\ PtInit
    /\ DlIdle
    /\ RaIdle
    /\ CycIdle
    /\ CtlIdle
    /\ EstimateInit
    /\ LoopIdle
    /\ ThrIdle
    /\ ClnIdle

InitWaiting ==
    /\ PidInit
    /\ KalInit
    /\ QuantIdle
    /\ PtInit
    /\ DlIdle
    /\ RaIdle
    /\ CycIdle
    /\ WaitInit
    /\ FnIdle
    /\ LoopIdle
    /\ ThrIdle
    /\ ClnIdle

InitLoop ==
    /\ PidInit
    /\ KalInit
    /\ QuantIdle
    /\ PtInit
    /\ DlIdle
    /\ RaIdle
    /\ CycIdle
    /\ CtlIdle
    /\ FnIdle
    /\ LoopInit
    /\ ThrIdle
    /\ ClnIdle

InitCalculate ==
    /\ PidInit
    /\ KalInit
    /\ QuantIdle
    /\ PtInit
    /\ DlIdle
    /\ RaIdle
    /\ CycIdle
    /\ CtlIdle
    /\ CalcInit
    /\ LoopIdle
    /\ ThrIdle
    /\ ClnIdle

InitPhase ==
    /\ PidInit
    /\ KalInit
    /\ QuantIdle
    /\ PtInit
    /\ DlIdle
    /\ RaIdle
    /\ CycIdle
    /\ CtlIdle
    /\ PhaseInit
    /\ LoopIdle
    /\ ThrIdle
    /\ ClnIdle

InitApi ==
    /\ PidInit
    /\ KalInit
    /\ QuantIdle
    /\ PtInit
    /\ DlIdle
    /\ RaIdle
    /\ CycIdle
    /\ CtlIdle
    /\ ApiInit
    /\ LoopIdle
    /\ ThrIdle
    /\ ClnIdle

InitThreads ==
    /\ PidInit
    /\ KalInit
    /\ QuantIdle
    /\ ThrInit
    /\ ClnIdle
    /\ DlIdle
    /\ RaIdle
    /\ CycIdle
    /\ CtlIdle
    /\ FnIdle
    /\ LoopIdle

InitSmooth ==
    /\ PidInit
    /\ KalInit
    /\ QuantIdle
    /\ PtInit
    /\ DlIdle
    /\ RaIdle
    /\ CycIdle
    /\ CtlIdle
    /\ SmoothInit
    /\ LoopIdle
    /\ ThrIdle
    /\ ClnIdle

InitSafeDiv ==
    /\ PidInit
    /\ KalInit
    /\ QuantIdle
    /\ PtInit
    /\ DlIdle
    /\ RaIdle
    /\ CycIdle
    /\ CtlIdle
    /\ SafeDivInit
    /\ LoopIdle
    /\ ThrIdle
    /\ ClnIdle

InitPause ==
    /\ PidInit
    /\ KalInit
    /\ QuantIdle
    /\ PtInit
    /\ DlIdle
    /\ RaIdle
    /\ CycIdle
    /\ WaitInit
    /\ PauseInit
    /\ LoopIdle
    /\ ThrIdle
    /\ ClnIdle

InitCleanup ==
    /\ PidInit
    /\ KalInit
    /\ QuantIdle
    /\ PtInit
    /\ DlIdle
    /\ RaIdle
    /\ CycIdle
    /\ CtlIdle
    /\ FnIdle
    /\ LoopIdle
    /\ ThrIdle
    /\ CleanInit

InitSubscription ==
    /\ PidInit
    /\ KalInit
    /\ QuantIdle
    /\ PtInit
    /\ DlIdle
    /\ RaIdle
    /\ CycIdle
    /\ CtlIdle
    /\ LoopIdle
    /\ ClnIdle
    /\ SubInit

InitBackend ==
    /\ PidInit
    /\ KalInit
    /\ QuantIdle
    /\ PtInit
    /\ DlIdle
    /\ RaIdle
    /\ CycIdle
    /\ BackCtlInit
    /\ LoopIdle
    /\ ThrIdle
    /\ ClnIdle
    /\ BackInit

InitUpLimit ==
    /\ PidInit
    /\ KalInit
    /\ QuantIdle
    /\ PtInit
    /\ DlIdle
    /\ RaIdle
    /\ CycIdle
    /\ CtlIdle
    /\ LoopIdle
    /\ ThrIdle
    /\ ClnIdle
    /\ UpInit

InitTelegram ==
    /\ PidInit
    /\ KalInit
    /\ QuantIdle
    /\ PtInit
    /\ DlIdle
    /\ RaIdle
    /\ CycIdle
    /\ CtlIdle
    /\ LoopIdle
    /\ ThrIdle
    /\ ClnIdle
    /\ TgInit

InitController ==
    /\ PidInit
    /\ KalInit
    /\ QuantIdle
    /\ PtInit
    /\ DlIdle
    /\ RaIdle
    /\ CycIdle
    /\ CtlInit
    /\ FnIdle
    /\ LoopIdle
    /\ ThrIdle
    /\ ClnIdle

SpecPID == Init /\ [][PidNext]_vars

SpecKalman == Init /\ [][KalNext]_vars

SpecQuant == InitQuant /\ [][QuantNext]_vars

SpecTracker == Init /\ [][PtNext]_vars

SpecDL == InitDL /\ [][DlNext]_vars

SpecReannounce == InitReannounce /\ [][RaNext]_vars

SpecCycle == InitCycle /\ [][CycNext]_vars

SpecEstimation == InitEstimation /\ [][EstNext]_vars

SpecResume == InitController /\ [][ResumeNext]_vars

SpecEstimate == InitEstimate /\ [][EstimateNext]_vars

SpecWaiting == InitWaiting /\ [][WaitNext]_vars

SpecLoop == InitLoop /\ [][LoopNext]_vars

SpecCalculate == InitCalculate /\ [][CalcNext]_vars

SpecPhase == InitPhase /\ [][PhaseNext]_vars

SpecApi == InitApi /\ [][ApiNext]_vars

SpecThreads == InitThreads /\ [][ThrNext]_vars

SpecSmooth == InitSmooth /\ [][SmoothNext]_vars

SpecSafeDiv == InitSafeDiv /\ [][SafeDivNext]_vars

SpecPause == InitPause /\ [][PauseNext]_vars

SpecCleanup == InitCleanup /\ [][CleanNext]_vars

SpecSubscription == InitSubscription /\ [][SubNext]_vars

SpecBackend == InitBackend /\ [][BackNext]_vars

SpecUpLimit == InitUpLimit /\ [][UpNext]_vars

SpecTelegram == InitTelegram /\ [][TgNext]_vars

SpecController == InitController /\ [][CtlNext]_vars

====
